---------------------------- MODULE Spec2Model ----------------------------
(***************************************************************************)
(* A model of the StackSet controller (controller/stackset.go).            *)
(*                                                                         *)
(* The module holds several specifications over one set of variables:      *)
(*   Spec           the main loop of Run: watch events, ticks, the worker  *)
(*                  pool and the panic boundary of ReconcileStackSet;      *)
(*   SpecReconcile  the stages of ReconcileStackSet for one StackSet       *)
(*                  against the external store, tick after tick;           *)
(*   SpecStatus     retryUpdate / ReconcileStatuses against a store that   *)
(*                  another writer changes concurrently;                   *)
(*   SpecConverge   AddUpdateStackSetIngress / AddUpdateStackSetRouteGroup *)
(*                  as functions of (existing, desired);                   *)
(*   SpecCollect    collectResources over listings of owned objects;       *)
(*   SpecClock      the tick timer and the liveness check;                 *)
(*   SpecEvents     the warning events along the chain of errorEventf;     *)
(*   SpecCreate     CreateCurrentStack and the configuration resources;    *)
(*   SpecSelect     the traffic reconciler of a container;                 *)
(*   SpecChannel    the event channel between handlers and main loop,      *)
(*                  with fairness; SpecStatusFair is SpecStatus with       *)
(*                  fairness for the controller's steps;                   *)
(*   SpecStatusTraffic  ReconcileStatuses, with that fairness, in a tick   *)
(*                  whose ReconcileStackSetDesiredTraffic has updated the  *)
(*                  StackSet (SpecStatus: it has not).                     *)
(* Each specification leaves the other groups of variables at their idle   *)
(* values.                                                                 *)
(***************************************************************************)
EXTENDS Integers, Sequences, FiniteSets, TLC

VARIABLES
    \* ---- Run (main loop) ----
    controllerID,    \* c.config.ControllerID
    reconcileWorkers,\* c.config.ReconcileWorkers, the limit of the errgroup
    stacksetEvents,  \* c.stacksetEvents: the channel of capacity 1
    stacksetStore,   \* c.stacksetStore: map from UID to StackSet
    loop,            \* where the main loop of Run stands
    containers,      \* stackSetContainers of the tick in progress
    worker,          \* position of the goroutine started for each container
    result,          \* what each goroutine returned to the errgroup
    panics,          \* metricsReporter.ReportPanic() calls so far
    access,          \* accesses to stacksetStore so far: <<who, how>>
    lastHandled,     \* the event the event branch consumed last
    cancelled,       \* ctx.Done() is closed
    \* ---- ReconcileStackSet for one StackSet ----
    features,        \* the feature flags of c.config
    apiStackSet,     \* the StackSet object in the external store
    storeStackSet,   \* its copy in c.stacksetStore (as of the last event)
    apiStacks,       \* the Stack objects in the external store, by version
    rpc,             \* the stage ReconcileStackSet is about to run
    ssc,             \* the StackSetContainer of the tick in progress
    stageLog,        \* the stages run so far in this tick, in order
    cleanupTodo,     \* flagged stacks CleanupOldStacks has not visited yet
    deleteLog,       \* Delete calls of this tick: <<version, "ok" | "error">>
    recEvents,       \* events recorded in this tick: <<reason, object>>
    createLog,       \* per revision: Create calls that succeeded, and calls
                     \* issued after one succeeded
    \* ---- the resource convergence loops of ReconcileStackSet ----
    resPc,           \* where the convergence of the tick stands
    resStacks,       \* container.StackContainers (the keys)
    segsInOrder,     \* what ReconcileTrafficSegments returned
    reconciledStacks,\* the map reconciledStacks of ReconcileStackSet
    resLog,          \* per Stack: the kinds ReconcileStackResources attempted
    resFailed,       \* per Stack: the kind whose reconciliation failed
    resEvents,       \* warning events recorded: <<reason, stack>>
    \* ---- ReconcileStatuses ----
    apiStatus,       \* the external store: object -> [rv, status]
    stPc,            \* where ReconcileStatuses stands
    stObj,           \* the object whose retryUpdate is running
    stDone,          \* the objects whose retryUpdate has returned
    stLocal,         \* the variable stack / stackset of the closure
    stRetry,         \* the variable retry of retryUpdate
    stTrace,         \* the Get and UpdateStatus calls of this retryUpdate
    stErr,           \* what ReconcileStatuses returned
    extWrites,       \* writes of other actors so far
    stListed,        \* the status each object carried when the tick listed it
    stDeleted,       \* the Stacks CleanupOldStacks has deleted in this tick
    stTrafficUpdated, \* ReconcileStackSetDesiredTraffic has updated the StackSet in this tick
    \* ---- AddUpdateStackSetIngress / AddUpdateStackSetRouteGroup ----
    cvKind,          \* the kind of object under convergence
    cvApi,           \* the object of the external store, or None
    cvLast,          \* the last call: its arguments, its write call, its result
    cvClock,         \* the value c.now() returns
    \* ---- collectResources ----
    colConfig,       \* the feature flags of c.config
    colPc,           \* the listing collectResources is working through
    colIdx,          \* the items of this listing handled so far
    colListed,       \* the items of all listings handled so far
    colStacksets,    \* the map stacksets: UID -> StackSetContainer
    colRejected,     \* an item was refused by getOwnerUID
    \* ---- Run: the tick timer and the liveness check ----
    tmInterval,      \* c.config.Interval
    tmNow,           \* the time
    nextCheck,       \* the variable nextCheck of Run
    tmLoop,          \* where the main loop stands
    tmContainers,    \* the number of containers of the tick's index, or None
    tmLastTick,      \* the most recent tick: its start, what became of it, its work
    tmProbe,          \* the last answer of the liveness check
    \* ---- warning events of one reconciliation ----
    evPc,            \* the statement of ReconcileStackSet in progress
    evStack,         \* Stacks the two loops have been through
    evErr,           \* the error ReconcileStackSet returned
    evEvents,        \* warning events recorded: <<reason, object, cause>>
    evFailures,      \* failures that occurred so far
    \* ---- CreateCurrentStack, one call ----
    ccPc,            \* where the call stands
    ccNewStack,      \* what ssc.NewStack() proposed, None for nil
    ccCalls,         \* the calls of the API made, in order
    ccErr,           \* the error CreateCurrentStack returned
    ccApi,           \* the external store: Stacks created, ObservedStackVersion
    ccContainer,     \* the tick's model: ssc.StackSet, ssc.StackContainers
    ccEvents,        \* events recorded: <<reason, object, cause>>
    \* ---- the traffic reconciler of a container ----
    selStore,        \* the annotations of the StackSet in c.stacksetStore
    selEvent,        \* the channel: the annotations of the StackSet sent, or None
    selLoop,         \* where the main loop stands
    selContainer,    \* the container of the tick, with its reconciler
    selUsed,         \* the reconciler ManageTraffic worked with in this tick
    \* ---- the event channel ----
    chChannel,       \* c.stacksetEvents: the numbers of the buffered notifications
    chHandler,       \* the notification of the handler that is at its send statement
    chLoop,          \* where the main loop stands
    chNextId,        \* the number of the informer's next notification
    chStore,         \* the notification applied to the store last
    chExpected,      \* the number of the oldest notification not yet applied
    chCancelled,     \* ctx is cancelled
    chRemaining      \* the time left until nextCheck

runVars == <<controllerID, reconcileWorkers, stacksetEvents, stacksetStore, loop, containers,
             worker, result, panics, access, lastHandled, cancelled>>

recVars == <<features, apiStackSet, storeStackSet, apiStacks, rpc, ssc, stageLog,
             cleanupTodo, deleteLog, recEvents, createLog>>

resVars == <<resPc, resStacks, segsInOrder, reconciledStacks, resLog, resFailed, resEvents>>

statVars == <<apiStatus, stPc, stObj, stDone, stLocal, stRetry, stTrace, stErr, extWrites, stListed,
             stDeleted, stTrafficUpdated>>

cvVars == <<cvKind, cvApi, cvLast, cvClock>>

colVars == <<colConfig, colPc, colIdx, colListed, colStacksets, colRejected>>

evVars == <<evPc, evStack, evErr, evEvents, evFailures>>

ccVars == <<ccPc, ccNewStack, ccCalls, ccErr, ccApi, ccContainer, ccEvents>>

selVars == <<selStore, selEvent, selLoop, selContainer, selUsed>>

chVars == <<chChannel, chHandler, chLoop, chNextId, chStore, chExpected, chCancelled,
           chRemaining>>

tmVars == <<tmInterval, tmNow, nextCheck, tmLoop, tmContainers, tmLastTick, tmProbe>>

vars == <<runVars, recVars, resVars, statVars, cvVars, colVars, tmVars, evVars, ccVars, selVars, chVars>>

None == [none |-> TRUE]

\* Go maps: a function whose domain is the set of keys present.
EmptyMap == [k \in {} |-> None]
MapPut(m, k, v) == [x \in DOMAIN m \cup {k} |-> IF x = k THEN v ELSE m[x]]
MapDelete(m, k) == [x \in DOMAIN m \ {k} |-> m[x]]

-----------------------------------------------------------------------------
(* Bounds of the model                                                     *)

MaxStackSets == 2
MaxPanics == 1
MaxWorkers == 2
MaxVersion == 3
MaxStacks == 2
MaxExternalWrites == 2
MaxClock == 3
MaxOwnerReferences == 2
MaxListed == 4
MaxInterval == 2
MaxTime == 8
MaxNameLen == 2
MaxConfigurationResources == 2
MaxDeleted == 1
MaxNotification == 3

-----------------------------------------------------------------------------
(* Run: the main loop                                                      *)

UIDs == 1..MaxStackSets

\* Value of the controller annotation: NoAnnotation when the key is absent.
NoAnnotation == "<absent>"
Owners == {NoAnnotation, "", "a", "b"}
ControllerIDs == {"", "a"}

StackSetObjects == [UID : UIDs, owner : Owners]
Events == [Deleted : BOOLEAN, StackSet : StackSetObjects]

hasOwnership_Unannotated(stackset) ==
    \* mutant: an unannotated StackSet is owned whatever the controller ID
    IF stackset.owner # NoAnnotation
    THEN stackset.owner = controllerID
    ELSE TRUE

hasOwnership(stackset) ==
    IF stackset.owner # NoAnnotation
    THEN stackset.owner = controllerID
    ELSE controllerID = ""

\* The informer's handlers: each sends one event on the channel and blocks
\* while the channel is full.
add ==
    /\ Len(stacksetEvents) < 1
    /\ \E s \in StackSetObjects :
         stacksetEvents' = Append(stacksetEvents, [Deleted |-> FALSE, StackSet |-> s])
    /\ UNCHANGED <<controllerID, reconcileWorkers, stacksetStore, loop, containers, worker, result,
                   panics, access, lastHandled, cancelled, recVars, resVars, statVars, cvVars, colVars, tmVars, evVars, ccVars, selVars, chVars>>

update ==
    /\ Len(stacksetEvents) < 1
    /\ \E newStackset \in StackSetObjects :
         stacksetEvents' = Append(stacksetEvents, [Deleted |-> FALSE, StackSet |-> newStackset])
    /\ UNCHANGED <<controllerID, reconcileWorkers, stacksetStore, loop, containers, worker, result,
                   panics, access, lastHandled, cancelled, recVars, resVars, statVars, cvVars, colVars, tmVars, evVars, ccVars, selVars, chVars>>

del ==
    /\ Len(stacksetEvents) < 1
    /\ \E s \in StackSetObjects :
         stacksetEvents' = Append(stacksetEvents, [Deleted |-> TRUE, StackSet |-> s])
    /\ UNCHANGED <<controllerID, reconcileWorkers, stacksetStore, loop, containers, worker, result,
                   panics, access, lastHandled, cancelled, recVars, resVars, statVars, cvVars, colVars, tmVars, evVars, ccVars, selVars, chVars>>

HandleEvent_AnyTime ==
    \* mutant: the events are received by a goroutine of their own
    /\ loop # "stopped"
    /\ stacksetEvents # <<>>
    /\ LET e == Head(stacksetEvents)
           stackset == e.StackSet
           uid == stackset.UID
       IN  /\ stacksetEvents' = Tail(stacksetEvents)
           /\ lastHandled' = [UID |-> uid, Deleted |-> e.Deleted, owner |-> stackset.owner,
                               stored |-> uid \in DOMAIN stacksetStore]
           /\ IF uid \in DOMAIN stacksetStore
              THEN IF e.Deleted \/ ~hasOwnership(stackset)
                   THEN /\ stacksetStore' = MapDelete(stacksetStore, uid)
                        /\ access' = access \cup {<<"event", "read">>, <<"event", "write">>}
                   ELSE /\ stacksetStore' = MapPut(stacksetStore, uid, stackset)
                        /\ access' = access \cup {<<"event", "read">>, <<"event", "write">>}
              ELSE IF ~hasOwnership(stackset)
                   THEN /\ UNCHANGED stacksetStore
                        /\ access' = access \cup {<<"event", "read">>}
                   ELSE /\ stacksetStore' = MapPut(stacksetStore, uid, stackset)
                        /\ access' = access \cup {<<"event", "read">>, <<"event", "write">>}
    /\ UNCHANGED <<controllerID, reconcileWorkers, loop, containers, worker, result, panics, cancelled, recVars, resVars, statVars, cvVars, colVars, tmVars, evVars, ccVars, selVars, chVars>>

\* case e := <-c.stacksetEvents
HandleEvent ==
    /\ loop = "select"
    /\ stacksetEvents # <<>>
    /\ LET e == Head(stacksetEvents)
           stackset == e.StackSet
           uid == stackset.UID
       IN  /\ stacksetEvents' = Tail(stacksetEvents)
           /\ lastHandled' = [UID |-> uid, Deleted |-> e.Deleted, owner |-> stackset.owner,
                               stored |-> uid \in DOMAIN stacksetStore]
           /\ IF uid \in DOMAIN stacksetStore
              THEN IF e.Deleted \/ ~hasOwnership(stackset)
                   THEN /\ stacksetStore' = MapDelete(stacksetStore, uid)
                        /\ access' = access \cup {<<"event", "read">>, <<"event", "write">>}
                   ELSE /\ stacksetStore' = MapPut(stacksetStore, uid, stackset)
                        /\ access' = access \cup {<<"event", "read">>, <<"event", "write">>}
              ELSE IF ~hasOwnership(stackset)
                   THEN /\ UNCHANGED stacksetStore
                        /\ access' = access \cup {<<"event", "read">>}
                   ELSE /\ stacksetStore' = MapPut(stacksetStore, uid, stackset)
                        /\ access' = access \cup {<<"event", "read">>, <<"event", "write">>}
    /\ UNCHANGED <<controllerID, reconcileWorkers, loop, containers, worker, result, panics, cancelled, recVars, resVars, statVars, cvVars, colVars, tmVars, evVars, ccVars, selVars, chVars>>

\* case <-time.After(time.Until(nextCheck)), when collectResources fails:
\* the error is logged and the loop continues.
TickCollectFails ==
    /\ loop = "select"
    /\ access' = access \cup {<<"collect", "read">>}
    /\ lastHandled' = None
    /\ UNCHANGED <<controllerID, reconcileWorkers, stacksetEvents, stacksetStore, loop, containers,
                   worker, result, panics, cancelled, recVars, resVars, statVars, cvVars, colVars, tmVars, evVars, ccVars, selVars, chVars>>

\* collectResources: one container per entry of the store, holding a copy of
\* the stored StackSet.
collectResources == [uid \in DOMAIN stacksetStore |-> stacksetStore[uid]]

\* case <-time.After(time.Until(nextCheck)), when collectResources succeeds
Tick ==
    /\ loop = "select"
    /\ containers' = collectResources
    /\ worker' = [uid \in DOMAIN stacksetStore |-> "pending"]
    /\ result' = [uid \in DOMAIN stacksetStore |-> "none"]
    /\ access' = access \cup {<<"collect", "read">>}
    /\ lastHandled' = None
    /\ loop' = "dispatch"
    /\ UNCHANGED <<controllerID, reconcileWorkers, stacksetEvents, stacksetStore, panics, cancelled, recVars, resVars, statVars, cvVars, colVars, tmVars, evVars, ccVars, selVars, chVars>>

Running == {u \in DOMAIN worker : worker[u] \in {"started", "reconciling"}}

Go_Unlimited(uid) ==
    \* mutant: the errgroup has no limit
    /\ loop = "dispatch"
    /\ uid \in DOMAIN worker
    /\ worker[uid] = "pending"
    /\ worker' = [worker EXCEPT ![uid] = "started"]
    /\ UNCHANGED <<controllerID, reconcileWorkers, stacksetEvents, stacksetStore, loop, containers,
                   result, panics, access, lastHandled, cancelled, recVars, resVars, statVars, cvVars, colVars, tmVars, evVars, ccVars, selVars, chVars>>

\* reconcileGroup.Go(func): blocks while ReconcileWorkers goroutines are active
Go(uid) ==
    /\ loop = "dispatch"
    /\ uid \in DOMAIN worker
    /\ worker[uid] = "pending"
    /\ Cardinality(Running) < reconcileWorkers
    /\ worker' = [worker EXCEPT ![uid] = "started"]
    /\ UNCHANGED <<controllerID, reconcileWorkers, stacksetEvents, stacksetStore, loop, containers,
                   result, panics, access, lastHandled, cancelled, recVars, resVars, statVars, cvVars, colVars, tmVars, evVars, ccVars, selVars, chVars>>

WorkerStart_WritesStore(uid) ==
    \* mutant: the goroutine refreshes the store entry it has just looked up
    /\ uid \in DOMAIN worker
    /\ worker[uid] = "started"
    /\ access' = access \cup {<<"worker", "read">>, <<"worker", "write">>}
    /\ IF uid \in DOMAIN stacksetStore
       THEN /\ worker' = [worker EXCEPT ![uid] = "reconciling"]
            /\ stacksetStore' = MapPut(stacksetStore, uid, containers[uid])
            /\ UNCHANGED result
       ELSE /\ worker' = [worker EXCEPT ![uid] = "done"]
            /\ result' = [result EXCEPT ![uid] = "nil"]
            /\ UNCHANGED stacksetStore
    /\ UNCHANGED <<controllerID, reconcileWorkers, stacksetEvents, loop, containers,
                   panics, lastHandled, cancelled, recVars, resVars, statVars, cvVars, colVars, tmVars, evVars, ccVars, selVars, chVars>>

\* The goroutine's first statement: if _, ok := c.stacksetStore[stackset]; ok
WorkerStart(uid) ==
    /\ uid \in DOMAIN worker
    /\ worker[uid] = "started"
    /\ access' = access \cup {<<"worker", "read">>}
    /\ IF uid \in DOMAIN stacksetStore
       THEN /\ worker' = [worker EXCEPT ![uid] = "reconciling"]
            /\ UNCHANGED result
       ELSE /\ worker' = [worker EXCEPT ![uid] = "done"]
            /\ result' = [result EXCEPT ![uid] = "nil"]
    /\ UNCHANGED <<controllerID, reconcileWorkers, stacksetEvents, stacksetStore, loop, containers,
                   panics, lastHandled, cancelled, recVars, resVars, statVars, cvVars, colVars, tmVars, evVars, ccVars, selVars, chVars>>

\* How a call of ReconcileStackSet ends: it returns nil, it returns an error,
\* or one of its stages panics.
Outcomes == {"nil", "error", "panic"}

\* err = fmt.Errorf("panic: %v", r)
PanicError == "panic: r"

ReconcileStackSet_NoRecover(uid) ==
    \* mutant: no deferred recover(); a panic unwinds the goroutine and ends
    \* the process
    /\ uid \in DOMAIN worker
    /\ worker[uid] = "reconciling"
    /\ \E outcome \in Outcomes :
         /\ outcome = "panic" => panics < MaxPanics
         /\ IF outcome = "panic"
            THEN /\ loop' = "crashed"
                 /\ UNCHANGED <<worker, result>>
            ELSE /\ result' = [result EXCEPT ![uid] = outcome]
                 /\ worker' = [worker EXCEPT ![uid] = "done"]
                 /\ UNCHANGED loop
    /\ UNCHANGED <<controllerID, reconcileWorkers, stacksetEvents, stacksetStore, containers,
                   panics, access, lastHandled, cancelled, recVars, resVars, statVars, cvVars, colVars, tmVars, evVars, ccVars, selVars, chVars>>

\* ReconcileStackSet with its deferred recover(), and the goroutine's return:
\* a panic is counted and becomes the error "panic: ...".
ReconcileStackSet(uid) ==
    /\ uid \in DOMAIN worker
    /\ worker[uid] = "reconciling"
    /\ \E outcome \in Outcomes :
         /\ outcome = "panic" => panics < MaxPanics
         /\ panics' = IF outcome = "panic" THEN panics + 1 ELSE panics
         /\ result' = [result EXCEPT ![uid] =
                          CASE outcome = "nil" -> "nil"
                            [] outcome = "error" -> "error"
                            [] outcome = "panic" -> PanicError]
    /\ worker' = [worker EXCEPT ![uid] = "done"]
    /\ UNCHANGED <<controllerID, reconcileWorkers, stacksetEvents, stacksetStore, loop, containers,
                   access, lastHandled, cancelled, recVars, resVars, statVars, cvVars, colVars, tmVars, evVars, ccVars, selVars, chVars>>

\* The range loop over stackSetContainers has started every goroutine.
Dispatched ==
    /\ loop = "dispatch"
    /\ \A u \in DOMAIN worker : worker[u] # "pending"
    /\ loop' = "wait"
    /\ UNCHANGED <<controllerID, reconcileWorkers, stacksetEvents, stacksetStore, containers, worker,
                   result, panics, access, lastHandled, cancelled, recVars, resVars, statVars, cvVars, colVars, tmVars, evVars, ccVars, selVars, chVars>>

\* reconcileGroup.Wait() returns once every goroutine has returned.
Wait ==
    /\ loop = "wait"
    /\ \A u \in DOMAIN worker : worker[u] = "done"
    /\ loop' = "report"
    /\ UNCHANGED <<controllerID, reconcileWorkers, stacksetEvents, stacksetStore, containers, worker,
                   result, panics, access, lastHandled, cancelled, recVars, resVars, statVars, cvVars, colVars, tmVars, evVars, ccVars, selVars, chVars>>

\* c.metricsReporter.Report(stackSetContainers); the tick's containers are
\* dropped and the loop selects again.
Report ==
    /\ loop = "report"
    /\ loop' = "select"
    /\ containers' = EmptyMap
    /\ worker' = EmptyMap
    /\ result' = EmptyMap
    /\ UNCHANGED <<controllerID, reconcileWorkers, stacksetEvents, stacksetStore, panics, access,
                   lastHandled, cancelled, recVars, resVars, statVars, cvVars, colVars, tmVars, evVars, ccVars, selVars, chVars>>

\* The context is cancelled by the caller of Run.
Cancel ==
    /\ ~cancelled
    /\ cancelled' = TRUE
    /\ UNCHANGED <<controllerID, reconcileWorkers, stacksetEvents, stacksetStore, loop, containers,
                   worker, result, panics, access, lastHandled, recVars, resVars, statVars, cvVars, colVars, tmVars, evVars, ccVars, selVars, chVars>>

Terminate_Anywhere ==
    \* mutant: the cancellation is observed at any point of the loop
    /\ loop # "stopped"
    /\ cancelled
    /\ loop' = "stopped"
    /\ UNCHANGED <<controllerID, reconcileWorkers, stacksetEvents, stacksetStore, containers, worker,
                   result, panics, access, lastHandled, cancelled, recVars, resVars, statVars, cvVars, colVars, tmVars, evVars, ccVars, selVars, chVars>>

\* case <-ctx.Done(): return nil
Terminate ==
    /\ loop = "select"
    /\ cancelled
    /\ loop' = "stopped"
    /\ UNCHANGED <<controllerID, reconcileWorkers, stacksetEvents, stacksetStore, containers, worker,
                   result, panics, access, lastHandled, cancelled, recVars, resVars, statVars, cvVars, colVars, tmVars, evVars, ccVars, selVars, chVars>>

-----------------------------------------------------------------------------
(* ReconcileStackSet: the stages of one StackSet's reconciliation          *)

\* Stack revisions; a Stack's name is a function of (stackset, revision), so
\* the Stacks of the StackSet are keyed by revision.  0 stands for "none".
Versions == 1..MaxVersion

\* The history limit of the StackSet's lifecycle policy.
HistoryLimit == 1

FeatureSets ==
    { [RouteGroup |-> TRUE, ConfigMap |-> TRUE, Secret |-> TRUE, Pcs |-> TRUE],
      [RouteGroup |-> FALSE, ConfigMap |-> FALSE, Secret |-> FALSE, Pcs |-> FALSE] }

collectStacks_NoneAttached ==
    \* mutant: the owner lookup never matches, no Stack is attached
    {v \in DOMAIN apiStacks : apiStacks[v] = "owned" /\ FALSE}

\* collectStacks: the Stacks of the listing whose single owner is the
\* StackSet become its StackContainers.
collectStacks == {v \in DOMAIN apiStacks : apiStacks[v] = "owned"}

\* The tick starts: collectResources builds the container from the stored
\* StackSet and a fresh listing of Stacks.
StartTick ==
    /\ rpc = "idle"
    /\ ssc' = [StackSet |-> storeStackSet, StackContainers |-> collectStacks,
               PendingRemoval |-> {}]
    /\ rpc' = "CreateCurrentStack"
    /\ stageLog' = <<"collectResources">>
    /\ cleanupTodo' = {}
    /\ deleteLog' = {}
    /\ recEvents' = <<>>
    /\ UNCHANGED <<features, apiStackSet, storeStackSet, apiStacks, createLog, runVars, resVars, statVars, cvVars, colVars, tmVars, evVars, ccVars, selVars, chVars>>

\* ssc.NewStack(): the revision to create, or 0 when there is none: the
\* desired revision differs from ObservedStackVersion and the container holds
\* no Stack of that name.
NewStack(c) ==
    IF /\ c.StackSet.observed # c.StackSet.desired
       /\ c.StackSet.desired \notin c.StackContainers
    THEN c.StackSet.desired
    ELSE 0

\* The external store accepts a write of the StackSet only from a copy of
\* its current version (optimistic concurrency).
IsCurrent(copy) == copy = apiStackSet

\* What the calls of CreateCurrentStack may answer.  Create fails when an
\* object of that name exists and may fail otherwise; UpdateStatus fails on
\* an outdated copy and may fail otherwise.
CreateOutcomes(v) ==
    (IF features.ConfigMap \/ features.Secret THEN {"invalidName"} ELSE {})
      \cup {"createFailed"}
      \cup (IF v \in DOMAIN apiStacks THEN {} ELSE {"statusFailed"})
      \cup (IF v \notin DOMAIN apiStacks /\ IsCurrent(ssc.StackSet) THEN {"created"} ELSE {})

\* CreateCurrentStack, and the statements of ReconcileStackSet that event its
\* error and proceed.
CreateCurrentStack ==
    /\ rpc = "CreateCurrentStack"
    /\ LET v == NewStack(ssc)
       IN  IF v = 0
           THEN UNCHANGED <<apiStacks, apiStackSet, ssc, recEvents, createLog>>
           ELSE \E outcome \in CreateOutcomes(v) :
                  /\ apiStacks' = IF outcome \in {"statusFailed", "created"}
                                  THEN MapPut(apiStacks, v, "owned")
                                  ELSE apiStacks
                  /\ apiStackSet' = IF outcome = "created"
                                    THEN [apiStackSet EXCEPT !.observed = v]
                                    ELSE apiStackSet
                  /\ ssc' = IF outcome = "created"
                            THEN [ssc EXCEPT !.StackSet = apiStackSet',
                                             !.StackContainers = @ \cup {v}]
                            ELSE ssc
                  /\ recEvents' = recEvents
                       \o (IF outcome \in {"statusFailed", "created"}
                           THEN << <<"CreatedStack", "stackset">> >> ELSE <<>>)
                       \o (IF outcome # "created"
                           THEN << <<"FailedCreateStack", "stackset">> >> ELSE <<>>)
                  /\ createLog' =
                       [createLog EXCEPT ![v] =
                          [ok |-> IF outcome \in {"statusFailed", "created"}
                                  THEN @.ok + 1 ELSE @.ok,
                           after |-> IF outcome # "invalidName" /\ @.ok > 0
                                     THEN 1 ELSE @.after]]
    /\ rpc' = "UpdateFromResources"
    /\ stageLog' = Append(stageLog, "CreateCurrentStack")
    /\ UNCHANGED <<features, storeStackSet, cleanupTodo, deleteLog, runVars, resVars, statVars, cvVars, colVars, tmVars, evVars, ccVars, selVars, chVars>>

UpdateFromResources_StillWritesStatus ==
    \* mutant: on an error the statuses are still written before returning
    /\ rpc = "UpdateFromResources"
    /\ stageLog' = Append(stageLog, "UpdateFromResources")
    /\ \E ok \in BOOLEAN : rpc' = IF ok THEN "ManageTraffic" ELSE "ReconcileStatuses"
    /\ UNCHANGED <<features, apiStackSet, storeStackSet, apiStacks, ssc, cleanupTodo,
                   deleteLog, recEvents, createLog, runVars, resVars, statVars, cvVars, colVars, tmVars, evVars, ccVars, selVars, chVars>>

\* container.UpdateFromResources(): on an error ReconcileStackSet returns.
UpdateFromResources ==
    /\ rpc = "UpdateFromResources"
    /\ stageLog' = Append(stageLog, "UpdateFromResources")
    /\ \E ok \in BOOLEAN : rpc' = IF ok THEN "ManageTraffic" ELSE "return"
    /\ UNCHANGED <<features, apiStackSet, storeStackSet, apiStacks, ssc, cleanupTodo,
                   deleteLog, recEvents, createLog, runVars, resVars, statVars, cvVars, colVars, tmVars, evVars, ccVars, selVars, chVars>>

\* container.ManageTraffic(time.Now()): an error is evented, the tick proceeds.
ManageTraffic ==
    /\ rpc = "ManageTraffic"
    /\ stageLog' = Append(stageLog, "ManageTraffic")
    /\ \E ok \in BOOLEAN :
         recEvents' = IF ok THEN recEvents
                      ELSE Append(recEvents, <<"TrafficNotSwitched", "stackset">>)
    /\ rpc' = "MarkExpiredStacks"
    /\ UNCHANGED <<features, apiStackSet, storeStackSet, apiStacks, ssc, cleanupTodo,
                   deleteLog, createLog, runVars, resVars, statVars, cvVars, colVars, tmVars, evVars, ccVars, selVars, chVars>>

\* The Stacks of the container without traffic, and the oldest of them in
\* excess of the history limit.
GCCandidates(c) == {v \in c.StackContainers : v # c.StackSet.traffic}

ExpiredStacks(c) ==
    LET cands == GCCandidates(c)
        excess == Cardinality(cands) - HistoryLimit
    IN  IF excess <= 0 THEN {}
        ELSE {v \in cands : Cardinality({w \in cands : w < v}) < excess}

\* container.MarkExpiredStacks()
MarkExpiredStacks ==
    /\ rpc = "MarkExpiredStacks"
    /\ stageLog' = Append(stageLog, "MarkExpiredStacks")
    /\ ssc' = [ssc EXCEPT !.PendingRemoval = ExpiredStacks(ssc)]
    /\ rpc' = "ReconcileTrafficSegments"
    /\ UNCHANGED <<features, apiStackSet, storeStackSet, apiStacks, cleanupTodo,
                   deleteLog, recEvents, createLog, runVars, resVars, statVars, cvVars, colVars, tmVars, evVars, ccVars, selVars, chVars>>

ReconcileTrafficSegments_AbortsOnError ==
    \* mutant: an error of the segment planning ends the reconciliation
    /\ rpc = "ReconcileTrafficSegments"
    /\ stageLog' = Append(stageLog, "ReconcileTrafficSegments")
    /\ \E ok \in BOOLEAN :
         /\ recEvents' = IF ok THEN recEvents
                          ELSE Append(recEvents, <<"FailedManageSegments", "stackset">>)
         /\ rpc' = IF ok THEN "ReconcileStackResources" ELSE "return"
    /\ UNCHANGED <<features, apiStackSet, storeStackSet, apiStacks, ssc, cleanupTodo,
                   deleteLog, createLog, runVars, resVars, statVars, cvVars, colVars, tmVars, evVars, ccVars, selVars, chVars>>

\* ReconcileTrafficSegments: an error of ComputeTrafficSegments is evented
\* once and the tick proceeds with no segment order.
ReconcileTrafficSegments ==
    /\ rpc = "ReconcileTrafficSegments"
    /\ stageLog' = Append(stageLog, "ReconcileTrafficSegments")
    /\ \E ok \in BOOLEAN :
         recEvents' = IF ok THEN recEvents
                      ELSE Append(recEvents, <<"FailedManageSegments", "stackset">>)
    /\ rpc' = "ReconcileStackResources"
    /\ UNCHANGED <<features, apiStackSet, storeStackSet, apiStacks, ssc, cleanupTodo,
                   deleteLog, createLog, runVars, resVars, statVars, cvVars, colVars, tmVars, evVars, ccVars, selVars, chVars>>

\* The two loops of ReconcileStackSet over ReconcileStackResources (their
\* inside is the subject of SpecResources); an error of a Stack is evented
\* under the reason of the failing kind and the tick proceeds.
ReconcileResources ==
    /\ rpc = "ReconcileStackResources"
    /\ stageLog' = Append(stageLog, "ReconcileStackResources")
    /\ \E ok \in BOOLEAN :
         /\ ~ok => ssc.StackContainers # {}
         /\ recEvents' = IF ok THEN recEvents
                          ELSE Append(recEvents, <<"FailedManageIngress", "stack">>)
    /\ rpc' = "RecordTrafficSwitch"
    /\ UNCHANGED <<features, apiStackSet, storeStackSet, apiStacks, ssc, cleanupTodo,
                   deleteLog, createLog, runVars, resVars, statVars, cvVars, colVars, tmVars, evVars, ccVars, selVars, chVars>>

\* RecordTrafficSwitch: always returns nil.
RecordTrafficSwitch ==
    /\ rpc = "RecordTrafficSwitch"
    /\ stageLog' = Append(stageLog, "RecordTrafficSwitch")
    /\ rpc' = "ReconcileStackSetDesiredTraffic"
    /\ UNCHANGED <<features, apiStackSet, storeStackSet, apiStacks, ssc, cleanupTodo,
                   deleteLog, recEvents, createLog, runVars, resVars, statVars, cvVars, colVars, tmVars, evVars, ccVars, selVars, chVars>>

\* container.GenerateStackSetTraffic(): the traffic of the spec, without the
\* entries of Stacks the container does not hold.
GenerateStackSetTraffic(c) ==
    IF c.StackSet.traffic \in c.StackContainers THEN c.StackSet.traffic ELSE 0

ReconcileStackSetDesiredTraffic_RewritesSpec ==
    \* mutant: the update also sets the spec back to the observed version
    /\ rpc = "ReconcileStackSetDesiredTraffic"
    /\ stageLog' = Append(stageLog, "ReconcileStackSetDesiredTraffic")
    /\ LET updatedTraffic == GenerateStackSetTraffic(ssc)
       IN  IF ssc.StackSet.traffic = updatedTraffic
           THEN UNCHANGED <<apiStackSet, recEvents>>
           ELSE \E ok \in BOOLEAN :
                  /\ ok => IsCurrent(ssc.StackSet)
                  /\ apiStackSet' = IF ok
                                    THEN [apiStackSet EXCEPT !.traffic = updatedTraffic,
                                                             !.desired = apiStackSet.observed]
                                    ELSE apiStackSet
                  /\ recEvents' = Append(recEvents,
                                    IF ok THEN <<"UpdatedStackSet", "stackset">>
                                    ELSE <<"FailedManageStackSet", "stackset">>)
    /\ rpc' = "CleanupOldStacks"
    /\ cleanupTodo' = ssc.PendingRemoval
    /\ UNCHANGED <<features, storeStackSet, apiStacks, ssc, deleteLog, createLog, runVars, resVars, statVars, cvVars, colVars, tmVars, evVars, ccVars, selVars, chVars>>

\* ReconcileStackSetDesiredTraffic: when the generated traffic differs from
\* the spec's, the StackSet is updated in the external store.
ReconcileStackSetDesiredTraffic ==
    /\ rpc = "ReconcileStackSetDesiredTraffic"
    /\ stageLog' = Append(stageLog, "ReconcileStackSetDesiredTraffic")
    /\ LET updatedTraffic == GenerateStackSetTraffic(ssc)
       IN  IF ssc.StackSet.traffic = updatedTraffic
           THEN UNCHANGED <<apiStackSet, recEvents>>
           ELSE \E ok \in BOOLEAN :
                  /\ ok => IsCurrent(ssc.StackSet)
                  /\ apiStackSet' = IF ok
                                    THEN [apiStackSet EXCEPT !.traffic = updatedTraffic]
                                    ELSE apiStackSet
                  /\ recEvents' = Append(recEvents,
                                    IF ok THEN <<"UpdatedStackSet", "stackset">>
                                    ELSE <<"FailedManageStackSet", "stackset">>)
    /\ rpc' = "CleanupOldStacks"
    /\ cleanupTodo' = ssc.PendingRemoval
    /\ UNCHANGED <<features, storeStackSet, apiStacks, ssc, deleteLog, createLog, runVars, resVars, statVars, cvVars, colVars, tmVars, evVars, ccVars, selVars, chVars>>

CleanupOldStacks_Continues ==
    \* mutant: a failed Delete is evented and the loop goes on
    /\ rpc = "CleanupOldStacks"
    /\ cleanupTodo # {}
    /\ \E v \in cleanupTodo, ok \in BOOLEAN :
         /\ v \notin DOMAIN apiStacks => ~ok
         /\ deleteLog' = deleteLog \cup {<<v, IF ok THEN "ok" ELSE "error">>}
         /\ apiStacks' = IF ok THEN MapDelete(apiStacks, v) ELSE apiStacks
         /\ recEvents' = Append(recEvents, IF ok THEN <<"DeletedExcessStack", v>>
                                           ELSE <<"FailedDeleteStack", "stackset">>)
         /\ cleanupTodo' = cleanupTodo \ {v}
    /\ UNCHANGED <<features, apiStackSet, storeStackSet, ssc, rpc, stageLog, createLog,
                   runVars, resVars, statVars, cvVars, colVars, tmVars, evVars, ccVars, selVars, chVars>>

CleanupOldStacks_EventsAttempt ==
    \* mutant: the deletion is recorded before the Delete call is answered
    /\ rpc = "CleanupOldStacks"
    /\ cleanupTodo # {}
    /\ \E v \in cleanupTodo, ok \in BOOLEAN :
         /\ v \notin DOMAIN apiStacks => ~ok
         /\ deleteLog' = deleteLog \cup {<<v, IF ok THEN "ok" ELSE "error">>}
         /\ IF ok
            THEN /\ apiStacks' = MapDelete(apiStacks, v)
                 /\ recEvents' = Append(recEvents, <<"DeletedExcessStack", v>>)
                 /\ cleanupTodo' = cleanupTodo \ {v}
                 /\ UNCHANGED <<rpc, stageLog>>
            ELSE /\ recEvents' = recEvents \o << <<"DeletedExcessStack", v>>,
                                                 <<"FailedDeleteStack", "stackset">> >>
                 /\ cleanupTodo' = {}
                 /\ rpc' = "ReconcileStatuses"
                 /\ stageLog' = Append(stageLog, "CleanupOldStacks")
                 /\ UNCHANGED apiStacks
    /\ UNCHANGED <<features, apiStackSet, storeStackSet, ssc, createLog, runVars, resVars, statVars, cvVars, colVars, tmVars, evVars, ccVars, selVars, chVars>>

CleanupOldStacks_AnyStack ==
    \* mutant: the loop does not skip the Stacks that are not flagged
    /\ rpc = "CleanupOldStacks"
    /\ cleanupTodo # {}
    /\ \E v \in cleanupTodo \cup ssc.StackContainers, ok \in BOOLEAN :
         /\ v \notin DOMAIN apiStacks => ~ok
         /\ deleteLog' = deleteLog \cup {<<v, IF ok THEN "ok" ELSE "error">>}
         /\ IF ok
            THEN /\ apiStacks' = MapDelete(apiStacks, v)
                 /\ recEvents' = Append(recEvents, <<"DeletedExcessStack", v>>)
                 /\ cleanupTodo' = cleanupTodo \ {v}
                 /\ UNCHANGED <<rpc, stageLog>>
            ELSE /\ recEvents' = Append(recEvents, <<"FailedDeleteStack", "stackset">>)
                 /\ cleanupTodo' = {}
                 /\ rpc' = "ReconcileStatuses"
                 /\ stageLog' = Append(stageLog, "CleanupOldStacks")
                 /\ UNCHANGED apiStacks
    /\ UNCHANGED <<features, apiStackSet, storeStackSet, ssc, createLog, runVars, resVars, statVars, cvVars, colVars, tmVars, evVars, ccVars, selVars, chVars>>

\* One iteration of the loop of CleanupOldStacks on a flagged Stack (the
\* iterations on the others do nothing; the order is that of a Go map).  A
\* failed Delete is evented and ends the call.
CleanupOldStacks ==
    /\ rpc = "CleanupOldStacks"
    /\ cleanupTodo # {}
    /\ \E v \in cleanupTodo, ok \in BOOLEAN :
         /\ v \notin DOMAIN apiStacks => ~ok
         /\ deleteLog' = deleteLog \cup {<<v, IF ok THEN "ok" ELSE "error">>}
         /\ IF ok
            THEN /\ apiStacks' = MapDelete(apiStacks, v)
                 /\ recEvents' = Append(recEvents, <<"DeletedExcessStack", v>>)
                 /\ cleanupTodo' = cleanupTodo \ {v}
                 /\ UNCHANGED <<rpc, stageLog>>
            ELSE /\ recEvents' = Append(recEvents, <<"FailedDeleteStack", "stackset">>)
                 /\ cleanupTodo' = {}
                 /\ rpc' = "ReconcileStatuses"
                 /\ stageLog' = Append(stageLog, "CleanupOldStacks")
                 /\ UNCHANGED apiStacks
    /\ UNCHANGED <<features, apiStackSet, storeStackSet, ssc, createLog, runVars, resVars, statVars, cvVars, colVars, tmVars, evVars, ccVars, selVars, chVars>>

\* CleanupOldStacks returns nil: the loop has visited every container.
CleanupReturns ==
    /\ rpc = "CleanupOldStacks"
    /\ cleanupTodo = {}
    /\ rpc' = "ReconcileStatuses"
    /\ stageLog' = Append(stageLog, "CleanupOldStacks")
    /\ UNCHANGED <<features, apiStackSet, storeStackSet, apiStacks, ssc, cleanupTodo,
                   deleteLog, recEvents, createLog, runVars, resVars, statVars, cvVars, colVars, tmVars, evVars, ccVars, selVars, chVars>>

\* ReconcileStatuses (its inside is the subject of SpecStatus), then
\* ReconcileStackSet returns.
ReconcileStatuses ==
    /\ rpc = "ReconcileStatuses"
    /\ stageLog' = Append(stageLog, "ReconcileStatuses")
    /\ rpc' = "return"
    /\ UNCHANGED <<features, apiStackSet, storeStackSet, apiStacks, ssc, cleanupTodo,
                   deleteLog, recEvents, createLog, runVars, resVars, statVars, cvVars, colVars, tmVars, evVars, ccVars, selVars, chVars>>

\* ReconcileStackSet has returned; the tick's container is dropped, and so
\* are the records of the tick.
EndTick ==
    /\ rpc = "return"
    /\ rpc' = "idle"
    /\ ssc' = None
    /\ stageLog' = <<>>
    /\ deleteLog' = {}
    /\ recEvents' = <<>>
    /\ UNCHANGED <<features, apiStackSet, storeStackSet, apiStacks, cleanupTodo,
                   createLog, runVars, resVars, statVars, cvVars, colVars, tmVars, evVars, ccVars, selVars, chVars>>

\* The user advances the revision of the StackSet's stack template.  (A
\* change made during a tick only makes the tick's writes of the StackSet
\* fail, which they may do anyway, and is seen by the next tick: it is taken
\* between ticks.)
UserBumpsVersion ==
    /\ rpc = "idle"
    /\ apiStackSet.desired < MaxVersion
    /\ apiStackSet' = [apiStackSet EXCEPT !.desired = @ + 1]
    /\ UNCHANGED <<features, storeStackSet, apiStacks, rpc, ssc, stageLog, cleanupTodo,
                   deleteLog, recEvents, createLog, runVars, resVars, statVars, cvVars, colVars, tmVars, evVars, ccVars, selVars, chVars>>

\* The user directs the traffic to another Stack, or to none.
UserSetsTraffic ==
    /\ rpc = "idle"
    /\ \E t \in 0..MaxVersion :
         /\ t # apiStackSet.traffic
         /\ apiStackSet' = [apiStackSet EXCEPT !.traffic = t]
    /\ UNCHANGED <<features, storeStackSet, apiStacks, rpc, ssc, stageLog, cleanupTodo,
                   deleteLog, recEvents, createLog, runVars, resVars, statVars, cvVars, colVars, tmVars, evVars, ccVars, selVars, chVars>>

\* The update event of the StackSet is consumed by the main loop, which
\* happens between ticks only.
WatchUpdate ==
    /\ rpc = "idle"
    /\ storeStackSet # apiStackSet
    /\ storeStackSet' = apiStackSet
    /\ UNCHANGED <<features, apiStackSet, apiStacks, rpc, ssc, stageLog, cleanupTodo,
                   deleteLog, recEvents, createLog, runVars, resVars, statVars, cvVars, colVars, tmVars, evVars, ccVars, selVars, chVars>>

InitialStackSet == [desired |-> 1, observed |-> 0, traffic |-> 0]

InitReconcile ==
    /\ features \in FeatureSets
    /\ apiStackSet = InitialStackSet
    /\ storeStackSet = InitialStackSet
    /\ apiStacks \in {EmptyMap, MapPut(EmptyMap, MaxVersion, "foreign")}
    /\ rpc = "idle"
    /\ ssc = None
    /\ stageLog = <<>>
    /\ cleanupTodo = {}
    /\ deleteLog = {}
    /\ recEvents = <<>>
    /\ createLog = [v \in Versions |-> [ok |-> 0, after |-> 0]]

\* The values the variables of ReconcileStackSet keep under the other
\* specifications.
IdleReconcile ==
    /\ features = [RouteGroup |-> FALSE, ConfigMap |-> FALSE, Secret |-> FALSE, Pcs |-> FALSE]
    /\ apiStackSet = InitialStackSet
    /\ storeStackSet = InitialStackSet
    /\ apiStacks = EmptyMap
    /\ rpc = "off"
    /\ ssc = None
    /\ stageLog = <<>>
    /\ cleanupTodo = {}
    /\ deleteLog = {}
    /\ recEvents = <<>>
    /\ createLog = EmptyMap

NextReconcile ==
    \/ StartTick
    \/ CreateCurrentStack
    \/ UpdateFromResources
    \/ ManageTraffic
    \/ MarkExpiredStacks
    \/ ReconcileTrafficSegments
    \/ ReconcileResources
    \/ RecordTrafficSwitch
    \/ ReconcileStackSetDesiredTraffic
    \/ CleanupOldStacks
    \/ CleanupReturns
    \/ ReconcileStatuses
    \/ EndTick
    \/ UserBumpsVersion
    \/ UserSetsTraffic
    \/ WatchUpdate

-----------------------------------------------------------------------------
(* The convergence loops of ReconcileStackSet and ReconcileStackResources  *)

StackIds == 1..MaxStacks

AllFeatureSets == [RouteGroup : BOOLEAN, ConfigMap : BOOLEAN, Secret : BOOLEAN, Pcs : BOOLEAN]

\* The calls of ReconcileStackResources in the order of its statements, each
\* with the event reason of its failure.
KindOrder ==
    << "Ingress", "IngressSegment", "RouteGroup", "RouteGroupSegment", "ConfigMapRefs",
       "SecretRefs", "PlatformCredentialsSets", "Deployment", "HPA", "Service" >>

KindEnabled(k) ==
    CASE k \in {"RouteGroup", "RouteGroupSegment"} -> features.RouteGroup
      [] k = "ConfigMapRefs" -> features.ConfigMap
      [] k = "SecretRefs" -> features.Secret
      [] k = "PlatformCredentialsSets" -> features.Pcs
      [] OTHER -> TRUE

RECURSIVE StackResourcesFrom(_, _)
\* The calls made from position i on, when the call of kind `failing` (if
\* any) returns an error: the function returns at the first error.
StackResourcesFrom(i, failing) ==
    IF i > Len(KindOrder) THEN <<>>
    ELSE IF ~KindEnabled(KindOrder[i]) THEN StackResourcesFrom(i + 1, failing)
    ELSE IF KindOrder[i] = failing THEN <<KindOrder[i]>>
    ELSE <<KindOrder[i]>> \o StackResourcesFrom(i + 1, failing)

\* ReconcileStackResources(ctx, ssc, sc): the kinds it attempts.
ReconcileStackResources(failing) == StackResourcesFrom(1, failing)

FailureChoices == {"none"} \cup {KindOrder[i] : i \in {j \in 1..Len(KindOrder) : KindEnabled(KindOrder[j])}}

\* One call of ReconcileStackResources from a loop of ReconcileStackSet: an
\* error is evented once for the Stack (errorEventf at the failing kind; the
\* second errorEventf, "FailedManageStack", finds it evented) and the loop
\* proceeds.
ReconcileOne(id, failing) ==
    /\ resLog' = MapPut(resLog, id, ReconcileStackResources(failing))
    /\ resFailed' = MapPut(resFailed, id, failing)
    /\ resEvents' = IF failing = "none" THEN resEvents
                    ELSE Append(resEvents, <<"FailedManage" \o failing, id>>)

\* The orders ComputeTrafficSegments may return: Stacks of the container,
\* none twice.
SegmentOrders ==
    {order \in UNION {[1..n -> resStacks] : n \in 0..Cardinality(resStacks)} :
        \A i, j \in DOMAIN order : order[i] = order[j] => i = j}

\* ReconcileTrafficSegments: the order, or nil and one event on an error.
ComputeSegments ==
    /\ resPc = "segments"
    /\ \/ /\ \E order \in SegmentOrders : segsInOrder' = order
          /\ UNCHANGED resEvents
       \/ /\ segsInOrder' = <<>>
          /\ resEvents' = Append(resEvents, <<"FailedManageSegments", "stackset">>)
    /\ resPc' = "segmentStacks"
    /\ UNCHANGED <<resStacks, reconciledStacks, resLog, resFailed, runVars, recVars, statVars, cvVars, colVars, tmVars, evVars, ccVars, selVars, chVars>>

\* for _, id := range segsInOrder
ReconcileSegmentStack ==
    /\ resPc = "segmentStacks"
    /\ Cardinality(reconciledStacks) < Len(segsInOrder)
    /\ LET id == segsInOrder[Cardinality(reconciledStacks) + 1]
       IN  /\ reconciledStacks' = reconciledStacks \cup {id}
           /\ \E failing \in FailureChoices : ReconcileOne(id, failing)
    /\ UNCHANGED <<resPc, resStacks, segsInOrder, runVars, recVars, statVars, cvVars, colVars, tmVars, evVars, ccVars, selVars, chVars>>

SegmentStacksDone ==
    /\ resPc = "segmentStacks"
    /\ Cardinality(reconciledStacks) = Len(segsInOrder)
    /\ resPc' = "otherStacks"
    /\ UNCHANGED <<resStacks, segsInOrder, reconciledStacks, resLog, resFailed, resEvents,
                   runVars, recVars, statVars, cvVars, colVars, tmVars, evVars, ccVars, selVars, chVars>>

ReconcileOtherStack_ReturnsOnError ==
    \* mutant: the loop returns on the first error
    /\ resPc = "otherStacks"
    /\ \E k \in resStacks \ DOMAIN resLog, failing \in FailureChoices :
         /\ ReconcileOne(k, failing)
         /\ resPc' = IF failing = "none" THEN resPc ELSE "done"
    /\ UNCHANGED <<resStacks, segsInOrder, reconciledStacks, runVars, recVars, statVars, cvVars, colVars, tmVars, evVars, ccVars, selVars, chVars>>

\* The keys of container.StackContainers a call of the second loop has
\* been made for: the range passes every key once.
RangeCalled == DOMAIN resLog \ reconciledStacks

ReconcileOtherStack_NoSkip ==
    \* mutant: the second loop does not skip the keys of reconciledStacks
    /\ resPc = "otherStacks"
    /\ \E k \in resStacks \ RangeCalled, failing \in FailureChoices :
         ReconcileOne(k, failing)
    /\ UNCHANGED <<resPc, resStacks, segsInOrder, reconciledStacks, runVars, recVars, statVars, cvVars, colVars, tmVars, evVars, ccVars, selVars, chVars>>

\* for k, sc := range container.StackContainers, skipping reconciledStacks
ReconcileOtherStack ==
    /\ resPc = "otherStacks"
    /\ \E k \in resStacks \ RangeCalled, failing \in FailureChoices :
         /\ k \notin reconciledStacks
         /\ ReconcileOne(k, failing)
    /\ UNCHANGED <<resPc, resStacks, segsInOrder, reconciledStacks, runVars, recVars, statVars, cvVars, colVars, tmVars, evVars, ccVars, selVars, chVars>>

OtherStacksDone ==
    /\ resPc = "otherStacks"
    /\ resStacks \subseteq DOMAIN resLog
    /\ resPc' = "done"
    /\ UNCHANGED <<resStacks, segsInOrder, reconciledStacks, resLog, resFailed, resEvents,
                   runVars, recVars, statVars, cvVars, colVars, tmVars, evVars, ccVars, selVars, chVars>>

InitResources ==
    /\ resPc = "segments"
    /\ resStacks \in SUBSET StackIds
    /\ segsInOrder = <<>>
    /\ reconciledStacks = {}
    /\ resLog = EmptyMap
    /\ resFailed = EmptyMap
    /\ resEvents = <<>>

IdleResources ==
    /\ resPc = "off"
    /\ resStacks = {}
    /\ segsInOrder = <<>>
    /\ reconciledStacks = {}
    /\ resLog = EmptyMap
    /\ resFailed = EmptyMap
    /\ resEvents = <<>>

\* The variables of ReconcileStackSet's other stages under SpecResources:
\* idle, with any setting of the feature flags.
IdleReconcileAnyFeatures ==
    /\ features \in AllFeatureSets
    /\ apiStackSet = InitialStackSet
    /\ storeStackSet = InitialStackSet
    /\ apiStacks = EmptyMap
    /\ rpc = "off"
    /\ ssc = None
    /\ stageLog = <<>>
    /\ cleanupTodo = {}
    /\ deleteLog = {}
    /\ recEvents = <<>>
    /\ createLog = EmptyMap

NextResources ==
    \/ ComputeSegments
    \/ ReconcileSegmentStack
    \/ SegmentStacksDone
    \/ ReconcileOtherStack
    \/ OtherStacksDone

-----------------------------------------------------------------------------
(* ReconcileStatuses and retryUpdate                                       *)

\* The objects whose status is written: the Stacks of the container, then
\* the StackSet.
StatusStacks == StackIds
StatusObjects == StatusStacks \cup {0}

\* Status values: the one computed from the tick's model ("computed"), the
\* one the listed object carried ("listed"), one written by another actor.
Statuses == {"listed", "computed", "external"}

\* sc.GenerateStackStatus() / ssc.GenerateStackSetStatus()
GeneratedStatus(o) == "computed"

\* Another actor updates an object: its resource version moves on.
ExternalWrite ==
    /\ stPc \in {"start", "compare", "fetch"}
    /\ extWrites < MaxExternalWrites
    /\ \E o \in StatusObjects \ stDeleted, st \in {"computed", "external"} :
         apiStatus' = [apiStatus EXCEPT ![o] = [rv |-> @.rv + 1, status |-> st]]
    /\ extWrites' = extWrites + 1
    /\ UNCHANGED <<stListed, stDeleted, stTrafficUpdated, stPc, stObj, stDone, stLocal, stRetry, stTrace, stErr,
                   runVars, recVars, resVars, cvVars, colVars, tmVars, evVars, ccVars, selVars, chVars>>

\* ReconcileStatuses ranges over ssc.StackContainers as collectResources
\* built it: CleanupOldStacks deletes a Stack in the store and leaves its
\* container in the map.
\* The next object of ReconcileStatuses: a Stack of the container while
\* there is one left (in the order of a Go map), then the StackSet.
\* stack := sc.Stack.DeepCopy(): the copy is the listed object.
NextObject ==
    /\ stPc = "start"
    /\ \E o \in (IF StatusStacks \subseteq stDone THEN {0} ELSE StatusStacks \ stDone) :
         /\ stObj' = o
         /\ stLocal' = [rv |-> 1, status |-> stListed[o]]
    /\ stRetry' = FALSE
    /\ stTrace' = <<>>
    /\ stPc' = "compare"
    /\ UNCHANGED <<apiStatus, stDone, stErr, extWrites, stListed, stDeleted, stTrafficUpdated, runVars, recVars, resVars, cvVars, colVars, tmVars, evVars, ccVars, selVars, chVars>>

AfterUpdateFn_GivesUpOnConflict(err) ==
    \* mutant: a conflict ends retryUpdate like any other error
    IF err = "nil" THEN
        /\ stDone' = stDone \cup {stObj}
        /\ stPc' = IF stObj = 0 THEN "done" ELSE "start"
        /\ stErr' = IF stObj = 0 THEN "nil" ELSE stErr
        /\ UNCHANGED stRetry
    ELSE
        /\ stPc' = "done"
        /\ stErr' = err
        /\ UNCHANGED <<stDone, stRetry>>

AfterUpdateFn_RetriesOnError(err) ==
    \* mutant: every error of updateFn is retried, not only a conflict
    IF err # "nil" THEN
        /\ stRetry' = TRUE
        /\ stPc' = "fetch"
        /\ UNCHANGED <<stDone, stErr>>
    ELSE
        /\ stDone' = stDone \cup {stObj}
        /\ stPc' = IF stObj = 0 THEN "done" ELSE "start"
        /\ stErr' = IF stObj = 0 THEN "nil" ELSE stErr
        /\ UNCHANGED stRetry

\* retryUpdate: what follows the return of updateFn.
AfterUpdateFn(err) ==
    IF err = "conflict" THEN
        /\ stRetry' = TRUE
        /\ stPc' = "fetch"
        /\ UNCHANGED <<stDone, stErr>>
    ELSE IF err = "nil" THEN
        /\ stDone' = stDone \cup {stObj}
        /\ stPc' = IF stObj = 0 THEN "done" ELSE "start"
        /\ stErr' = IF stObj = 0 THEN "nil" ELSE stErr
        /\ UNCHANGED stRetry
    ELSE
        /\ stPc' = "done"
        /\ stErr' = err
        /\ UNCHANGED <<stDone, stRetry>>

Fetch_KeepsStaleCopy ==
    \* mutant: the fetched object is not assigned to the closure's variable
    /\ stPc = "fetch"
    /\ stTrace' = Append(stTrace, [call |-> "Get", rv |-> apiStatus[stObj].rv,
                                   status |-> apiStatus[stObj].status, answer |-> "nil"])
    /\ stPc' = "compare"
    /\ UNCHANGED <<apiStatus, stObj, stLocal, stDone, stRetry, stErr, extWrites, stListed, stDeleted, stTrafficUpdated,
                   runVars, recVars, resVars, cvVars, colVars, tmVars, evVars, ccVars, selVars, chVars>>

\* updateFn with retry set: Get the object; an error is returned, otherwise
\* the closure's variable becomes the fetched object.
Fetch ==
    /\ stPc = "fetch"
    /\ \/ /\ stObj \notin stDeleted
          /\ stLocal' = apiStatus[stObj]
          /\ stTrace' = Append(stTrace, [call |-> "Get", rv |-> apiStatus[stObj].rv,
                                         status |-> apiStatus[stObj].status,
                                         answer |-> "nil"])
          /\ stPc' = "compare"
          /\ UNCHANGED <<stDone, stRetry, stErr>>
       \/ /\ stTrace' = Append(stTrace, [call |-> "Get", rv |-> 0, status |-> "listed",
                                         answer |-> "error"])
          /\ UNCHANGED stLocal
          /\ AfterUpdateFn("error")
    /\ UNCHANGED <<apiStatus, stObj, extWrites, stListed, stDeleted, stTrafficUpdated, runVars, recVars, resVars, cvVars, colVars, tmVars, evVars, ccVars, selVars, chVars>>

\* What UpdateStatus may answer for a copy at resource version rv.
\* For a Stack that has been deleted the answer is NotFound, an error that
\* is no conflict.
UpdateAnswers(o, rv) ==
    IF o \in stDeleted THEN {"error"}
    ELSE IF rv = apiStatus[o].rv THEN {"nil", "error"} ELSE {"conflict", "error"}

CompareAndUpdate_AlwaysWrites ==
    \* mutant: UpdateStatus is called without comparing the statuses
    /\ stPc = "compare"
    /\ \E answer \in UpdateAnswers(stObj, stLocal.rv) :
         /\ stLocal' = [stLocal EXCEPT !.status = GeneratedStatus(stObj)]
         /\ stTrace' = Append(stTrace, [call |-> "UpdateStatus", rv |-> stLocal.rv,
                                        status |-> GeneratedStatus(stObj),
                                        answer |-> answer])
         /\ apiStatus' = IF answer = "nil"
                         THEN [apiStatus EXCEPT ![stObj] =
                                 [rv |-> @.rv + 1, status |-> GeneratedStatus(stObj)]]
                         ELSE apiStatus
         /\ AfterUpdateFn(answer)
    /\ UNCHANGED <<stObj, extWrites, stListed, stDeleted, stTrafficUpdated, runVars, recVars, resVars, cvVars, colVars, tmVars, evVars, ccVars, selVars, chVars>>

\* The rest of updateFn: when the status differs semantically, set it and
\* call UpdateStatus; otherwise return nil.
CompareAndUpdate ==
    /\ stPc = "compare"
    /\ IF GeneratedStatus(stObj) # stLocal.status
       THEN \E answer \in UpdateAnswers(stObj, stLocal.rv) :
              /\ stLocal' = [stLocal EXCEPT !.status = GeneratedStatus(stObj)]
              /\ stTrace' = Append(stTrace, [call |-> "UpdateStatus", rv |-> stLocal.rv,
                                             status |-> GeneratedStatus(stObj),
                                             answer |-> answer])
              /\ apiStatus' = IF answer = "nil"
                              THEN [apiStatus EXCEPT ![stObj] =
                                      [rv |-> @.rv + 1, status |-> GeneratedStatus(stObj)]]
                              ELSE apiStatus
              /\ AfterUpdateFn(answer)
       ELSE /\ UNCHANGED <<stLocal, stTrace, apiStatus>>
            /\ AfterUpdateFn("nil")
    /\ UNCHANGED <<stObj, extWrites, stListed, stDeleted, stTrafficUpdated, runVars, recVars, resVars, cvVars, colVars, tmVars, evVars, ccVars, selVars, chVars>>

\* The StackSet of the store after the Update of
\* ReconcileStackSetDesiredTraffic: updated is a copy of existing with the
\* new Spec.Traffic, so the store's object moves to the next resource
\* version and keeps its status. The object Update returns is dropped:
\* ssc.StackSet stays the listed object.
UpdatedStackSet(existing) == [existing EXCEPT !.rv = @ + 1]

\* The objects of the store when ReconcileStatuses starts.
StoredAtStatuses(o) ==
    LET listed == [rv |-> 1, status |-> stListed[o]]
    IN  IF o = 0 /\ stTrafficUpdated THEN UpdatedStackSet(listed) ELSE listed

\* The start of ReconcileStatuses in a tick in which
\* ReconcileStackSetDesiredTraffic has (updated) or has not sent its Update.
InitStatusAfter(updated) ==
    /\ stListed \in [StatusObjects -> {"listed", "computed"}]
    /\ stDeleted \in {stacks \in SUBSET StatusStacks : Cardinality(stacks) <= MaxDeleted}
    /\ stTrafficUpdated = updated
    /\ apiStatus = [o \in StatusObjects |-> StoredAtStatuses(o)]
    /\ stPc = "start"
    /\ stObj = 0
    /\ stDone = {}
    /\ stLocal = [rv |-> 1, status |-> "listed"]
    /\ stRetry = FALSE
    /\ stTrace = <<>>
    /\ stErr = "none"
    /\ extWrites = 0

InitStatus == InitStatusAfter(FALSE)

InitStatusTraffic == InitStatusAfter(TRUE)

IdleStatus ==
    /\ stListed = EmptyMap
    /\ stDeleted = {}
    /\ stTrafficUpdated = FALSE
    /\ apiStatus = EmptyMap
    /\ stPc = "off"
    /\ stObj = 0
    /\ stDone = {}
    /\ stLocal = [rv |-> 1, status |-> "listed"]
    /\ stRetry = FALSE
    /\ stTrace = <<>>
    /\ stErr = "none"
    /\ extWrites = 0

NextStatus ==
    \/ ExternalWrite
    \/ NextObject
    \/ Fetch
    \/ CompareAndUpdate

-----------------------------------------------------------------------------
(* AddUpdateStackSetIngress and AddUpdateStackSetRouteGroup                *)

ControllerLastUpdatedAnnotationKey == "stackset-controller.zalando.org/updated-timestamp"

\* A Go map[string]string: nil, or a map with the keys of DOMAIN kv.
NilMap == [isNil |-> TRUE, kv |-> EmptyMap]
MakeMap(kv) == [isNil |-> FALSE, kv |-> kv]

UserMaps == {EmptyMap} \cup {[k \in {"a"} |-> v] : v \in {1, 2}}
GoUserMaps == {NilMap} \cup {MakeMap(kv) : kv \in UserMaps}
GoLabelMaps == {NilMap, MakeMap(EmptyMap), MakeMap([k \in {"a"} |-> 1])}

\* The Spec of an Ingress or RouteGroup: 0 is a field left unset.
ObjectSpecs == [rules : 0..2]

\* The desired objects the generators hand over (never stamped), or None
\* for "not wanted".
DesiredObjects == [Spec : ObjectSpecs, Annotations : GoUserMaps, Labels : GoLabelMaps]

\* The objects the listing may hold: stamped by an earlier write or not.
ExistingObjects ==
    [Spec : ObjectSpecs, Labels : GoLabelMaps,
     Annotations : GoUserMaps \cup
        {MakeMap(MapPut(kv, ControllerLastUpdatedAnnotationKey, 0)) : kv \in UserMaps}]

\* equality.Semantic.DeepEqual on maps: a nil and an empty map are equal.
SemanticDeepEqual(a, b) == a.kv = b.kv

\* equality.Semantic.DeepDerivative on specs: unset fields of the first
\* argument are ignored.
SemanticDeepDerivative(a1, a2) ==
    \A f \in DOMAIN a1 : a1[f] = 0 \/ a1[f] = a2[f]

existingHaveUpdateTimeStamp(existing) ==
    ControllerLastUpdatedAnnotationKey \in DOMAIN existing.Annotations.kv

\* The annotations of existing when they are compared: the stamp is deleted
\* when it is there.
ComparedAnnotations_WithStamp(existing) ==
    \* mutant: the stamp is left in place for the comparison
    existing.Annotations

ComparedAnnotations(existing) ==
    IF existingHaveUpdateTimeStamp(existing)
    THEN [existing.Annotations EXCEPT !.kv = MapDelete(@, ControllerLastUpdatedAnnotationKey)]
    ELSE existing.Annotations

\* The condition under which existing is returned as it is.
UpToDate(existing, desired) ==
    /\ existingHaveUpdateTimeStamp(existing)
    /\ SemanticDeepDerivative(desired.Spec, existing.Spec)
    /\ SemanticDeepEqual(desired.Annotations, ComparedAnnotations(existing))
    /\ SemanticDeepEqual(desired.Labels, existing.Labels)

\* The object handed to Create: desired with the stamp.
CreatedObject(desired) ==
    [desired EXCEPT !.Annotations =
        MakeMap(MapPut(@.kv, ControllerLastUpdatedAnnotationKey, cvClock))]

\* The object handed to Update: existing with the Spec, Annotations and
\* Labels of desired and a new stamp.
UpdatedObject(existing, desired) ==
    [Spec |-> desired.Spec,
     Annotations |-> MakeMap(MapPut(desired.Annotations.kv,
                                    ControllerLastUpdatedAnnotationKey, cvClock)),
     Labels |-> desired.Labels]

\* The body both functions share: what is called, what is stored, what is
\* recorded, for one answer of the API.
AddUpdate(existing, desired, fails) ==
    IF desired = None THEN
        /\ cvLast' = [existing |-> existing, desired |-> desired, call |-> "none",
                      err |-> FALSE, event |-> "none"]
        /\ UNCHANGED cvApi
    ELSE IF existing = None THEN
        /\ cvLast' = [existing |-> existing, desired |-> desired, call |-> "Create",
                      err |-> fails, event |-> IF fails THEN "none" ELSE "Created"]
        /\ cvApi' = IF fails THEN cvApi ELSE CreatedObject(desired)
    ELSE IF UpToDate(existing, desired) THEN
        /\ cvLast' = [existing |-> existing, desired |-> desired, call |-> "none",
                      err |-> FALSE, event |-> "none"]
        /\ UNCHANGED cvApi
    ELSE
        /\ cvLast' = [existing |-> existing, desired |-> desired, call |-> "Update",
                      err |-> fails, event |-> IF fails THEN "none" ELSE "Updated"]
        /\ cvApi' = IF fails THEN cvApi ELSE UpdatedObject(existing, desired)

AddUpdateStackSetIngress ==
    /\ cvKind = "Ingress"
    /\ cvClock < MaxClock
    /\ \E desired \in DesiredObjects \cup {None}, fails \in BOOLEAN :
         AddUpdate(cvApi, desired, fails)
    /\ cvClock' = cvClock + 1
    /\ UNCHANGED <<cvKind, runVars, recVars, resVars, statVars, colVars, tmVars, evVars, ccVars, selVars, chVars>>

AddUpdateStackSetRouteGroup ==
    /\ cvKind = "RouteGroup"
    /\ cvClock < MaxClock
    /\ \E desired \in DesiredObjects \cup {None}, fails \in BOOLEAN :
         AddUpdate(cvApi, desired, fails)
    /\ cvClock' = cvClock + 1
    /\ UNCHANGED <<cvKind, runVars, recVars, resVars, statVars, colVars, tmVars, evVars, ccVars, selVars, chVars>>

InitConverge ==
    /\ cvKind \in {"Ingress", "RouteGroup"}
    /\ cvApi \in ExistingObjects \cup {None}
    /\ cvLast = None
    /\ cvClock = 1

IdleConverge ==
    /\ cvKind = "off"
    /\ cvApi = None
    /\ cvLast = None
    /\ cvClock = 1

NextConverge ==
    \/ AddUpdateStackSetIngress
    \/ AddUpdateStackSetRouteGroup

-----------------------------------------------------------------------------
(* collectResources                                                        *)

\* The UIDs of the model: the StackSet of the store, the Stacks and the
\* Deployment a listing may hold.
StoredStackSetUIDs == {"ss1"}
StackUIDOf == <<"st1", "st2">>
DeploymentUIDOf == <<"d1">>
OwnerUIDs == {"ss1", "st1", "st2", "d1"}

RECURSIVE OwnerLists(_)
\* The owner-reference lists of at most n distinct owners.
OwnerLists(n) ==
    IF n = 0 THEN {<<>>}
    ELSE LET shorter == OwnerLists(n - 1)
         IN shorter \cup
            UNION {{Append(l, u) : u \in OwnerUIDs \ {l[i] : i \in 1..Len(l)}} :
                      l \in {x \in shorter : Len(x) = n - 1}}

\* The ObjectMeta of a listed object; Segment says whether its name ends
\* with core.SegmentSuffix.
ObjectMetas(uids) ==
    [UID : uids, OwnerReferences : OwnerLists(MaxOwnerReferences), Segment : BOOLEAN]

getOwnerUID_FirstOfSeveral(objectMeta) ==
    \* mutant: the first owner of a non-empty list is taken
    IF Len(objectMeta.OwnerReferences) >= 1
    THEN [uid |-> objectMeta.OwnerReferences[1], ok |-> TRUE]
    ELSE [uid |-> "", ok |-> FALSE]

getOwnerUID(objectMeta) ==
    IF Len(objectMeta.OwnerReferences) = 1
    THEN [uid |-> objectMeta.OwnerReferences[1], ok |-> TRUE]
    ELSE [uid |-> "", ok |-> FALSE]

\* core.NewContainer and a new core.StackContainer: every slot is empty.
NewContainer == [Ingress |-> None, RouteGroup |-> None, StackContainers |-> EmptyMap]

NewStackContainer(stack) ==
    [Stack |-> stack, Ingress |-> None, IngressSegment |-> None, RouteGroup |-> None,
     RouteGroupSegment |-> None, Deployment |-> None, Service |-> None, HPA |-> None,
     ConfigMaps |-> <<>>, Secrets |-> <<>>, PlatformCredentialsSets |-> <<>>]

\* The listings in the order collectResources makes them, and the flag that
\* guards each.
Listings ==
    << "Stacks", "Ingresses", "RouteGroups", "Deployments", "Services", "HPAs",
       "ConfigMaps", "Secrets", "PlatformCredentialsSets" >>

ListingEnabled(k) ==
    CASE k = "RouteGroups" -> colConfig.RouteGroup
      [] k = "ConfigMaps" -> colConfig.ConfigMap
      [] k = "Secrets" -> colConfig.Secret
      [] k = "PlatformCredentialsSets" -> colConfig.Pcs
      [] OTHER -> TRUE

RECURSIVE NextListing(_)
\* The first enabled listing from position i on, or "done".
NextListing(i) ==
    IF i > Len(Listings) THEN "done"
    ELSE IF ListingEnabled(Listings[i]) THEN Listings[i]
    ELSE NextListing(i + 1)

ListingIndex(k) == CHOOSE i \in 1..Len(Listings) : Listings[i] = k

\* The stacksets whose StackContainers hold uid: the loop
\* "for _, stackset := range stacksets" with its break.
HoldersOf(uid) ==
    {ss \in DOMAIN colStacksets : uid \in DOMAIN colStacksets[ss].StackContainers}

\* s.Resources.<slot> = &object for the Stack uid.
SetSlot(uid, slot, object) ==
    IF HoldersOf(uid) = {} THEN colStacksets
    ELSE LET ss == CHOOSE x \in HoldersOf(uid) : TRUE
         IN [colStacksets EXCEPT ![ss].StackContainers[uid][slot] = object]

\* s.Resources.<slot> = append(s.Resources.<slot>, &object) for the Stack uid.
AppendSlot(uid, slot, object) ==
    IF HoldersOf(uid) = {} THEN colStacksets
    ELSE LET ss == CHOOSE x \in HoldersOf(uid) : TRUE
         IN [colStacksets EXCEPT ![ss].StackContainers[uid][slot] = Append(@, object)]

\* One more item of the current listing is handled.
ItemHandled(object) ==
    /\ colListed < MaxListed
    /\ colListed' = colListed + 1
    /\ colRejected' = (colRejected \/ Len(object.OwnerReferences) # 1)
    /\ UNCHANGED <<colConfig, colPc, runVars, recVars, resVars, statVars, cvVars, tmVars, evVars, ccVars, selVars, chVars>>

\* collectStacks, one item of the listing: a Stack whose single owner is a
\* StackSet of the map gets a StackContainer under its own UID.
CollectStack ==
    /\ colPc = "Stacks"
    /\ colIdx < Len(StackUIDOf)
    /\ \E stack \in ObjectMetas({StackUIDOf[colIdx + 1]}) :
         /\ ItemHandled(stack)
         /\ LET owner == getOwnerUID(stack)
            IN colStacksets' =
                 IF owner.ok /\ owner.uid \in DOMAIN colStacksets
                 THEN [colStacksets EXCEPT ![owner.uid].StackContainers =
                         MapPut(@, stack.UID, NewStackContainer(stack))]
                 ELSE colStacksets
    /\ colIdx' = colIdx + 1

\* The body collectIngresses and collectRouteGroups share: the object goes
\* to the StackSet that owns it, or else to the Stack that owns it, in the
\* segment slot when its name carries the segment suffix.
CollectRouted(object, slot) ==
    LET owner == getOwnerUID(object)
    IN colStacksets' =
         IF ~owner.ok THEN colStacksets
         ELSE IF owner.uid \in DOMAIN colStacksets
         THEN [colStacksets EXCEPT ![owner.uid][slot] = object]
         ELSE SetSlot(owner.uid, IF object.Segment THEN slot \o "Segment" ELSE slot, object)

CollectIngress ==
    /\ colPc = "Ingresses"
    /\ \E ingress \in ObjectMetas({"o"}) :
         /\ ItemHandled(ingress)
         /\ CollectRouted(ingress, "Ingress")
    /\ UNCHANGED colIdx

CollectRouteGroup ==
    /\ colPc = "RouteGroups"
    /\ \E routegroup \in ObjectMetas({"o"}) :
         /\ ItemHandled(routegroup)
         /\ CollectRouted(routegroup, "RouteGroup")
    /\ UNCHANGED colIdx

\* collectDeployments, one item: the Deployment goes to the Stack that owns it.
CollectDeployment ==
    /\ colPc = "Deployments"
    /\ colIdx < Len(DeploymentUIDOf)
    /\ \E deployment \in ObjectMetas({DeploymentUIDOf[colIdx + 1]}) :
         /\ ItemHandled(deployment)
         /\ LET owner == getOwnerUID(deployment)
            IN colStacksets' = IF owner.ok THEN SetSlot(owner.uid, "Deployment", deployment)
                               ELSE colStacksets
    /\ colIdx' = colIdx + 1

\* The Stacks whose Deployment has the UID uid.
StacksOfDeployment(uid) ==
    {st \in UNION {DOMAIN colStacksets[ss].StackContainers : ss \in DOMAIN colStacksets} :
        \E ss \in HoldersOf(st) :
           /\ colStacksets[ss].StackContainers[st].Deployment # None
           /\ colStacksets[ss].StackContainers[st].Deployment.UID = uid}

AttachedViaDeployment_DirectOnly(object, slot) ==
    \* mutant: only the Stack that owns the object is looked for
    LET owner == getOwnerUID(object)
    IN IF ~owner.ok THEN {colStacksets}
       ELSE {SetSlot(owner.uid, slot, object)}

\* The body collectServices and collectHPAs share, as the maps it may leave:
\* the object goes to the Stack that owns it, or else to a Stack whose
\* Deployment owns it.
AttachedViaDeployment(object, slot) ==
    LET owner == getOwnerUID(object)
    IN IF ~owner.ok THEN {colStacksets}
       ELSE IF HoldersOf(owner.uid) # {}
       THEN {SetSlot(owner.uid, slot, object)}
       ELSE IF StacksOfDeployment(owner.uid) # {}
       THEN {SetSlot(st, slot, object) : st \in StacksOfDeployment(owner.uid)}
       ELSE {colStacksets}

CollectViaDeployment(object, slot) ==
    colStacksets' \in AttachedViaDeployment(object, slot)

CollectService ==
    /\ colPc = "Services"
    /\ \E service \in ObjectMetas({"o"}) :
         /\ ItemHandled(service)
         /\ CollectViaDeployment(service, "Service")
    /\ UNCHANGED colIdx

CollectHPA ==
    /\ colPc = "HPAs"
    /\ \E hpa \in ObjectMetas({"o"}) :
         /\ ItemHandled(hpa)
         /\ CollectViaDeployment(hpa, "HPA")
    /\ UNCHANGED colIdx

\* The body collectConfigMaps, collectSecrets and
\* collectPlatformCredentialsSet share: the object is appended to the slice
\* of the Stack that owns it.
CollectAppended(object, slot) ==
    LET owner == getOwnerUID(object)
    IN colStacksets' = IF owner.ok THEN AppendSlot(owner.uid, slot, object)
                       ELSE colStacksets

CollectConfigMap ==
    /\ colPc = "ConfigMaps"
    /\ \E configMap \in ObjectMetas({"o"}) :
         /\ ItemHandled(configMap)
         /\ CollectAppended(configMap, "ConfigMaps")
    /\ UNCHANGED colIdx

CollectSecret ==
    /\ colPc = "Secrets"
    /\ \E secret \in ObjectMetas({"o"}) :
         /\ ItemHandled(secret)
         /\ CollectAppended(secret, "Secrets")
    /\ UNCHANGED colIdx

CollectPlatformCredentialsSet ==
    /\ colPc = "PlatformCredentialsSets"
    /\ \E pcs \in ObjectMetas({"o"}) :
         /\ ItemHandled(pcs)
         /\ CollectAppended(pcs, "PlatformCredentialsSets")
    /\ UNCHANGED colIdx

\* The listing is exhausted: collectResources goes on to the next listing
\* its flags enable, or returns the map.
ListingEnds ==
    /\ colPc \in {Listings[i] : i \in 1..Len(Listings)}
    /\ colPc' = NextListing(ListingIndex(colPc) + 1)
    /\ colIdx' = 0
    /\ UNCHANGED <<colConfig, colListed, colStacksets, colRejected,
                   runVars, recVars, resVars, statVars, cvVars, tmVars, evVars, ccVars, selVars, chVars>>

\* List returns an error: collectResources returns nil and the error.
ListingFails ==
    /\ colPc \in {Listings[i] : i \in 1..Len(Listings)}
    /\ colIdx = 0
    /\ colPc' = "failed"
    /\ colStacksets' = EmptyMap
    /\ UNCHANGED <<colConfig, colIdx, colListed, colRejected,
                   runVars, recVars, resVars, statVars, cvVars, tmVars, evVars, ccVars, selVars, chVars>>

InitCollect ==
    /\ colConfig \in FeatureSets
    /\ colPc = "Stacks"
    /\ colIdx = 0
    /\ colListed = 0
    /\ colStacksets = [uid \in StoredStackSetUIDs |-> NewContainer]
    /\ colRejected = FALSE

IdleCollect ==
    /\ colConfig = [RouteGroup |-> FALSE, ConfigMap |-> FALSE, Secret |-> FALSE, Pcs |-> FALSE]
    /\ colPc = "off"
    /\ colIdx = 0
    /\ colListed = 0
    /\ colStacksets = EmptyMap
    /\ colRejected = FALSE

NextCollect ==
    \/ CollectStack
    \/ CollectIngress
    \/ CollectRouteGroup
    \/ CollectDeployment
    \/ CollectService
    \/ CollectHPA
    \/ CollectConfigMap
    \/ CollectSecret
    \/ CollectPlatformCredentialsSet
    \/ ListingEnds
    \/ ListingFails

-----------------------------------------------------------------------------
(* Run: the tick timer and the liveness check                              *)

\* The factor of the liveness check.
LivenessFactor == 5

StartedTick == [start |-> tmNow, outcome |-> "collecting", reconciled |-> 0, wrote |-> FALSE]

\* Time passes, whatever the loop is doing.
TimePasses ==
    /\ tmNow < MaxTime
    /\ tmNow' = tmNow + 1
    /\ UNCHANGED <<tmInterval, nextCheck, tmLoop, tmContainers, tmLastTick, tmProbe,
                   runVars, recVars, resVars, statVars, cvVars, colVars, evVars, ccVars, selVars, chVars>>

nextCheckTooOld_Inclusive(at, check) ==
    \* mutant: the bound itself already counts as too old
    at - check >= LivenessFactor * tmInterval

\* The liveness check: time.Since(nextCheck) > 5*c.config.Interval.
nextCheckTooOld(at, check) == at - check > LivenessFactor * tmInterval

TickBegins_NoReschedule ==
    \* mutant: nextCheck is left as it is when the tick starts
    /\ tmLoop = "select"
    /\ tmNow >= nextCheck
    /\ tmLoop' = "collect"
    /\ tmLastTick' = StartedTick
    /\ UNCHANGED <<tmInterval, tmNow, nextCheck, tmContainers,
                   runVars, recVars, resVars, statVars, cvVars, colVars, evVars, ccVars, selVars, chVars>>

\* case <-time.After(time.Until(nextCheck)): the tick starts and sets
\* nextCheck one interval ahead.
TickBegins ==
    /\ tmLoop = "select"
    /\ tmNow >= nextCheck
    /\ nextCheck' = tmNow + tmInterval
    /\ tmLoop' = "collect"
    /\ tmLastTick' = StartedTick
    /\ UNCHANGED <<tmInterval, tmNow, tmContainers,
                   runVars, recVars, resVars, statVars, cvVars, colVars, evVars, ccVars, selVars, chVars>>

\* The tick starts while no liveness check is reading nextCheck.
TimerFires ==
    /\ TickBegins
    /\ UNCHANGED tmProbe

CollectFails_Dispatches ==
    \* mutant: the error is logged and the tick goes on with what was built
    /\ tmLoop = "collect"
    /\ \E n \in 0..MaxStackSets : tmContainers' = n
    /\ tmLoop' = "reconcile"
    /\ tmLastTick' = [tmLastTick EXCEPT !.outcome = "failed"]
    /\ UNCHANGED <<tmInterval, tmNow, nextCheck, tmProbe,
                   runVars, recVars, resVars, statVars, cvVars, colVars, evVars, ccVars, selVars, chVars>>

\* collectResources returns an error: it is logged and the loop continues.
CollectFails ==
    /\ tmLoop = "collect"
    /\ tmContainers' = None
    /\ tmLoop' = "select"
    /\ tmLastTick' = [tmLastTick EXCEPT !.outcome = "failed"]
    /\ UNCHANGED <<tmInterval, tmNow, nextCheck, tmProbe,
                   runVars, recVars, resVars, statVars, cvVars, colVars, evVars, ccVars, selVars, chVars>>

\* collectResources returns the index; its containers are dispatched.
CollectSucceeds ==
    /\ tmLoop = "collect"
    /\ \E n \in 0..MaxStackSets : tmContainers' = n
    /\ tmLoop' = "reconcile"
    /\ tmLastTick' = [tmLastTick EXCEPT !.outcome = "reconciling"]
    /\ UNCHANGED <<tmInterval, tmNow, nextCheck, tmProbe,
                   runVars, recVars, resVars, statVars, cvVars, colVars, evVars, ccVars, selVars, chVars>>

\* One worker of the tick runs ReconcileStackSet, which may issue create,
\* update and delete calls.
WorkerReconciles ==
    /\ tmLoop = "reconcile"
    /\ tmLastTick.reconciled < tmContainers
    /\ \E w \in BOOLEAN :
         tmLastTick' = [tmLastTick EXCEPT !.reconciled = @ + 1, !.wrote = @ \/ w]
    /\ UNCHANGED <<tmInterval, tmNow, nextCheck, tmLoop, tmContainers, tmProbe,
                   runVars, recVars, resVars, statVars, cvVars, colVars, evVars, ccVars, selVars, chVars>>

\* reconcileGroup.Wait() returns, the metrics are reported, the loop selects
\* again.
WaitReturns ==
    /\ tmLoop = "reconcile"
    /\ tmLastTick.reconciled = tmContainers
    /\ tmLoop' = "select"
    /\ tmContainers' = None
    /\ tmLastTick' = [tmLastTick EXCEPT !.outcome = "done"]
    /\ UNCHANGED <<tmInterval, tmNow, nextCheck, tmProbe,
                   runVars, recVars, resVars, statVars, cvVars, colVars, evVars, ccVars, selVars, chVars>>

\* The health endpoint calls the liveness check from its own goroutine.
LivenessCheck ==
    /\ tmProbe' = [at |-> tmNow, tick |-> tmLastTick, racing |-> FALSE,
                   failed |-> nextCheckTooOld(tmNow, nextCheck)]
    /\ UNCHANGED <<tmInterval, tmNow, nextCheck, tmLoop, tmContainers, tmLastTick,
                   runVars, recVars, resVars, statVars, cvVars, colVars, evVars, ccVars, selVars, chVars>>

\* The liveness check reads nextCheck while the tick branch writes it (no
\* lock protects the variable): it sees the old or the new value.
LivenessCheckDuringWrite ==
    /\ TickBegins
    /\ \E seen \in {nextCheck, nextCheck'} :
         tmProbe' = [at |-> tmNow, tick |-> tmLastTick, racing |-> TRUE,
                     failed |-> nextCheckTooOld(tmNow, seen)]

\* Run up to its loop: nextCheck = time.Now().Add(-c.config.Interval).
InitClock ==
    /\ tmInterval \in 1..MaxInterval
    /\ tmNow = 0
    /\ nextCheck = 0 - tmInterval
    /\ tmLoop = "select"
    /\ tmContainers = None
    /\ tmLastTick = None
    /\ tmProbe = None

IdleClock ==
    /\ tmInterval = 1
    /\ tmNow = 0
    /\ nextCheck = 0
    /\ tmLoop = "off"
    /\ tmContainers = None
    /\ tmLastTick = None
    /\ tmProbe = None

NextClock ==
    \/ TimePasses
    \/ TimerFires
    \/ CollectFails
    \/ CollectSucceeds
    \/ WorkerReconciles
    \/ WaitReturns
    \/ LivenessCheck
    \/ LivenessCheckDuringWrite

-----------------------------------------------------------------------------
(* Warning events of one reconciliation: errorEventf along the call chain   *)
(* failing operation -> Reconcile* helper -> ReconcileStackSet -> worker     *)

\* An error value: evented is TRUE for *eventedError, FALSE for any other
\* type.
PlainError(cause) == [evented |-> FALSE, cause |-> cause]

ErrorCauses ==
    {"create", "update", "traffic", "segments", "desired", "delete", "status", "panic"}
      \cup {KindOrder[i] : i \in 1..Len(KindOrder)}

ErrorValues == [evented : BOOLEAN, cause : ErrorCauses]

\* The objects events are recorded for.
StackSetObject == [kind |-> "StackSet", id |-> 0]
StackObject(id) == [kind |-> "Stack", id |-> id]

\* errorEventf with an event at every call, whatever the type of the error.
errorEventf_AlwaysEvents(object, reason, err) ==
    [err |-> [evented |-> TRUE, cause |-> err.cause],
     events |-> << <<reason, object, err.cause>> >>]

\* errorEventf: the error it returns and the warning events it records.
errorEventf(object, reason, err) ==
    IF err.evented
    THEN [err |-> err, events |-> <<>>]
    ELSE [err |-> [evented |-> TRUE, cause |-> err.cause],
          events |-> << <<reason, object, err.cause>> >>]

reasonFailedManageStackSet == "FailedManageStackSet"

\* The statements of ReconcileStackSet that can fail, in order.
EventStages ==
    << "CreateCurrentStack", "UpdateFromResources", "ManageTraffic",
       "ReconcileTrafficSegments", "ReconcileStackResources",
       "ReconcileStackSetDesiredTraffic", "CleanupOldStacks", "ReconcileStatuses" >>

StageAfter(stage) ==
    LET i == CHOOSE j \in 1..Len(EventStages) : EventStages[j] = stage
    IN  IF i = Len(EventStages) THEN "worker" ELSE EventStages[i + 1]

\* A statement that succeeded.
StagePasses ==
    /\ evPc \in {EventStages[i] : i \in 1..Len(EventStages)} \ {"ReconcileStackResources"}
    /\ evPc' = StageAfter(evPc)
    /\ UNCHANGED <<evStack, evErr, evEvents, evFailures,
                   runVars, recVars, resVars, statVars, cvVars, colVars, tmVars, ccVars, selVars, chVars>>

\* A failure handled inside ReconcileStackSet: the reconciliation proceeds.
Proceeds(stage, events) ==
    /\ evPc = stage
    /\ evPc' = StageAfter(stage)
    /\ evEvents' = evEvents \o events
    /\ evFailures' = evFailures + 1
    /\ UNCHANGED <<evStack, evErr,
                   runVars, recVars, resVars, statVars, cvVars, colVars, tmVars, ccVars, selVars, chVars>>

\* A failure ReconcileStackSet returns to the worker.
Returns(stage, err, events) ==
    /\ evPc = stage
    /\ evPc' = "worker"
    /\ evErr' = err
    /\ evEvents' = evEvents \o events
    /\ evFailures' = evFailures + 1
    /\ UNCHANGED <<evStack,
                   runVars, recVars, resVars, statVars, cvVars, colVars, tmVars, ccVars, selVars, chVars>>

\* CreateCurrentStack returns a plain error: the validation's, Create's or
\* UpdateStatus's.
CreateCurrentStackFails ==
    Proceeds("CreateCurrentStack",
             errorEventf(StackSetObject, "FailedCreateStack", PlainError("create")).events)

\* container.UpdateFromResources fails: return err.
UpdateFromResourcesFails ==
    Returns("UpdateFromResources", PlainError("update"), <<>>)

\* container.ManageTraffic fails: the event is recorded directly.
ManageTrafficFails ==
    Proceeds("ManageTraffic", << <<"TrafficNotSwitched", StackSetObject, "traffic">> >>)

\* ComputeTrafficSegments fails: errorEventf in ReconcileTrafficSegments, then
\* in ReconcileStackSet.
ReconcileTrafficSegmentsFails ==
    LET inner == errorEventf(StackSetObject, "FailedManageSegments", PlainError("segments"))
        outer == errorEventf(StackSetObject, reasonFailedManageStackSet, inner.err)
    IN  Proceeds("ReconcileTrafficSegments", inner.events \o outer.events)

\* One iteration of the two loops over the Stacks: ReconcileStackResources
\* succeeds, or the call of one kind fails: errorEventf in
\* ReconcileStackResources, then in ReconcileStackSet.
StackResourcesReconciled ==
    /\ evPc = "ReconcileStackResources"
    /\ evStack < MaxStacks
    /\ evStack' = evStack + 1
    /\ \E failing \in FailureChoices :
         IF failing = "none"
         THEN UNCHANGED <<evEvents, evFailures>>
         ELSE LET inner == errorEventf(StackObject(evStack + 1), "FailedManage" \o failing, PlainError(failing))
                  outer == errorEventf(StackObject(evStack + 1), "FailedManageStack", inner.err)
              IN  /\ evEvents' = evEvents \o inner.events \o outer.events
                  /\ evFailures' = evFailures + 1
    /\ UNCHANGED <<evPc, evErr,
                   runVars, recVars, resVars, statVars, cvVars, colVars, tmVars, ccVars, selVars, chVars>>

\* Both loops are through (there may be fewer than MaxStacks Stacks).
StackLoopsEnd ==
    /\ evPc = "ReconcileStackResources"
    /\ evPc' = StageAfter(evPc)
    /\ UNCHANGED <<evStack, evErr, evEvents, evFailures,
                   runVars, recVars, resVars, statVars, cvVars, colVars, tmVars, ccVars, selVars, chVars>>

\* ReconcileStackSetDesiredTraffic returns a plain error.
DesiredTrafficFails ==
    Proceeds("ReconcileStackSetDesiredTraffic",
             errorEventf(StackSetObject, reasonFailedManageStackSet, PlainError("desired")).events)

\* Delete fails: errorEventf in CleanupOldStacks, then in ReconcileStackSet.
CleanupOldStacksFails ==
    LET inner == errorEventf(StackSetObject, "FailedDeleteStack", PlainError("delete"))
        outer == errorEventf(StackSetObject, reasonFailedManageStackSet, inner.err)
    IN  Proceeds("CleanupOldStacks", inner.events \o outer.events)

\* A status update fails, of a Stack or of the StackSet: errorEventf in
\* ReconcileStatuses, and ReconcileStackSet returns the error.
ReconcileStatusesFails ==
    \E object \in {StackObject(id) : id \in StackIds} \cup {StackSetObject} :
      LET reason == IF object = StackSetObject THEN "FailedUpdateStackSetStatus"
                    ELSE "FailedUpdateStackStatus"
          inner == errorEventf(object, reason, PlainError("status"))
      IN  Returns("ReconcileStatuses", inner.err, inner.events)

\* A panic in any statement: the deferred function recovers and returns
\* fmt.Errorf("panic: %v", r).
Panics ==
    \E stage \in {EventStages[i] : i \in 1..Len(EventStages)} :
      Returns(stage, PlainError("panic"), <<>>)

\* The goroutine of Run: errorEventf on the error ReconcileStackSet returned.
WorkerEvents ==
    /\ evPc = "worker"
    /\ evPc' = "done"
    /\ evEvents' = IF evErr = None THEN evEvents
                   ELSE evEvents \o errorEventf(StackSetObject, reasonFailedManageStackSet, evErr).events
    /\ UNCHANGED <<evStack, evErr, evFailures,
                   runVars, recVars, resVars, statVars, cvVars, colVars, tmVars, ccVars, selVars, chVars>>

InitEvents ==
    /\ evPc = EventStages[1]
    /\ evStack = 0
    /\ evErr = None
    /\ evEvents = <<>>
    /\ evFailures = 0

IdleEvents ==
    /\ evPc = "off"
    /\ evStack = 0
    /\ evErr = None
    /\ evEvents = <<>>
    /\ evFailures = 0

NextEvents ==
    \/ StagePasses
    \/ CreateCurrentStackFails
    \/ UpdateFromResourcesFails
    \/ ManageTrafficFails
    \/ ReconcileTrafficSegmentsFails
    \/ StackResourcesReconciled
    \/ StackLoopsEnd
    \/ DesiredTrafficFails
    \/ CleanupOldStacksFails
    \/ ReconcileStatusesFails
    \/ Panics
    \/ WorkerEvents

-----------------------------------------------------------------------------
(* CreateCurrentStack and the names of the configuration resources         *)

\* Names are sequences of characters.
Characters == {"a", "b"}

NamesOfLength(lengths) == UNION {[1..n -> Characters] : n \in lengths}

\* strings.HasPrefix(s, prefix)
HasPrefix(s, prefix) ==
    /\ Len(s) >= Len(prefix)
    /\ SubSeq(s, 1, Len(prefix)) = prefix

\* The error a Go function returns when it returns nil.
NilError == [kind |-> "nil"]

\* validateConfigurationResourceName: an error naming the resource when its
\* name is not prefixed by the Stack's.
validateConfigurationResourceName(stack, rsc) ==
    IF ~HasPrefix(rsc, stack)
    THEN [kind |-> "configurationResourceName", rsc |-> rsc, stack |-> stack]
    ELSE NilError

validateAllConfigurationResourcesNames_FirstOnly(stack) ==
    \* mutant: only the first configuration resource is looked at
    IF stack.ConfigurationResources = <<>> THEN NilError
    ELSE validateConfigurationResourceName(stack.Name, stack.ConfigurationResources[1])

\* validateAllConfigurationResourcesNames: the error of the first resource,
\* in the order of the Stack's spec, whose name is refused.
validateAllConfigurationResourcesNames(stack) ==
    LET refused == {i \in 1..Len(stack.ConfigurationResources) :
                      validateConfigurationResourceName(
                          stack.Name, stack.ConfigurationResources[i]) # NilError}
    IN  IF refused = {} THEN NilError
        ELSE validateConfigurationResourceName(
                 stack.Name,
                 stack.ConfigurationResources[CHOOSE i \in refused : \A j \in refused : i <= j])

\* The Stacks ssc.NewStack() may propose: a name and the names its
\* configuration resources refer to.
NewStacks ==
    [Name : NamesOfLength(1..MaxNameLen),
     ConfigurationResources :
        UNION {[1..n -> NamesOfLength(0..MaxNameLen)] : n \in 0..MaxConfigurationResources}]

\* The StackSet's ObservedStackVersion before the call, and the version
\* that comes with the new Stack.
ObservedBefore == 0
newStackVersion == 1

CreateNewStack_EventsBeforeCheck ==
    \* mutant: the event "CreatedStack" is recorded before the error of Create
    \* is looked at
    /\ ccPc = "CreateCurrentStack"
    /\ ccPc' = "returned"
    /\ IF ccNewStack = None THEN
          /\ ccErr' = NilError
          /\ UNCHANGED <<ccCalls, ccApi, ccContainer, ccEvents>>
       ELSE IF /\ features.ConfigMap \/ features.Secret
               /\ validateAllConfigurationResourcesNames(ccNewStack) # NilError THEN
          /\ ccErr' = validateAllConfigurationResourcesNames(ccNewStack)
          /\ UNCHANGED <<ccCalls, ccApi, ccContainer, ccEvents>>
       ELSE \E created, updated \in BOOLEAN :
          IF ~created THEN
             /\ ccCalls' = <<"Create">>
             /\ ccErr' = [kind |-> "Create"]
             /\ ccEvents' = << <<"CreatedStack", StackSetObject, "created">> >>
             /\ UNCHANGED <<ccApi, ccContainer>>
          ELSE IF ~updated THEN
             /\ ccCalls' = <<"Create", "UpdateStatus">>
             /\ ccErr' = [kind |-> "UpdateStatus"]
             /\ ccApi' = [ccApi EXCEPT !.stacks = @ \cup {ccNewStack.Name}]
             /\ ccEvents' = << <<"CreatedStack", StackSetObject, "created">> >>
             /\ UNCHANGED ccContainer
          ELSE
             /\ ccCalls' = <<"Create", "UpdateStatus">>
             /\ ccErr' = NilError
             /\ ccApi' = [stacks |-> ccApi.stacks \cup {ccNewStack.Name},
                          observed |-> newStackVersion]
             /\ ccEvents' = << <<"CreatedStack", StackSetObject, "created">> >>
             /\ ccContainer' = [observed |-> newStackVersion,
                                stacks |-> ccContainer.stacks \cup {ccNewStack.Name}]
    /\ UNCHANGED <<ccNewStack, runVars, recVars, resVars, statVars, cvVars, colVars, tmVars, evVars, selVars, chVars>>

\* CreateCurrentStack, for what NewStack proposed and what the API answers.
CreateNewStack ==
    /\ ccPc = "CreateCurrentStack"
    /\ ccPc' = "returned"
    /\ IF ccNewStack = None THEN
          /\ ccErr' = NilError
          /\ UNCHANGED <<ccCalls, ccApi, ccContainer, ccEvents>>
       ELSE IF /\ features.ConfigMap \/ features.Secret
               /\ validateAllConfigurationResourcesNames(ccNewStack) # NilError THEN
          /\ ccErr' = validateAllConfigurationResourcesNames(ccNewStack)
          /\ UNCHANGED <<ccCalls, ccApi, ccContainer, ccEvents>>
       ELSE \E created, updated \in BOOLEAN :
          IF ~created THEN
             /\ ccCalls' = <<"Create">>
             /\ ccErr' = [kind |-> "Create"]
             /\ UNCHANGED <<ccApi, ccContainer, ccEvents>>
          ELSE IF ~updated THEN
             /\ ccCalls' = <<"Create", "UpdateStatus">>
             /\ ccErr' = [kind |-> "UpdateStatus"]
             /\ ccApi' = [ccApi EXCEPT !.stacks = @ \cup {ccNewStack.Name}]
             /\ ccEvents' = << <<"CreatedStack", StackSetObject, "created">> >>
             /\ UNCHANGED ccContainer
          ELSE
             /\ ccCalls' = <<"Create", "UpdateStatus">>
             /\ ccErr' = NilError
             /\ ccApi' = [stacks |-> ccApi.stacks \cup {ccNewStack.Name},
                          observed |-> newStackVersion]
             /\ ccEvents' = << <<"CreatedStack", StackSetObject, "created">> >>
             /\ ccContainer' = [observed |-> newStackVersion,
                                stacks |-> ccContainer.stacks \cup {ccNewStack.Name}]
    /\ UNCHANGED <<ccNewStack, runVars, recVars, resVars, statVars, cvVars, colVars, tmVars, evVars, selVars, chVars>>

\* ReconcileStackSet after the call: an error is evented as
\* "FailedCreateStack" and the reconciliation proceeds.
CreateErrorEvented ==
    /\ ccPc = "returned"
    /\ ccPc' = "proceeds"
    /\ ccEvents' = IF ccErr = NilError THEN ccEvents
                   ELSE ccEvents \o
                        errorEventf(StackSetObject, "FailedCreateStack", PlainError("create")).events
    /\ UNCHANGED <<ccNewStack, ccCalls, ccErr, ccApi, ccContainer,
                   runVars, recVars, resVars, statVars, cvVars, colVars, tmVars, evVars, selVars, chVars>>

InitCreate ==
    /\ ccPc = "CreateCurrentStack"
    /\ ccNewStack \in NewStacks \cup {None}
    /\ ccCalls = <<>>
    /\ ccErr = None
    /\ ccApi = [stacks |-> {}, observed |-> ObservedBefore]
    /\ ccContainer = [observed |-> ObservedBefore, stacks |-> {}]
    /\ ccEvents = <<>>

IdleCreate ==
    /\ ccPc = "off"
    /\ ccNewStack = None
    /\ ccCalls = <<>>
    /\ ccErr = None
    /\ ccApi = [stacks |-> {}, observed |-> ObservedBefore]
    /\ ccContainer = [observed |-> ObservedBefore, stacks |-> {}]
    /\ ccEvents = <<>>

NextCreate ==
    \/ CreateNewStack
    \/ CreateErrorEvented

-----------------------------------------------------------------------------
(* collectResources: the traffic reconciler of a StackSetContainer         *)

PrescaleStacksAnnotationKey == "alpha.stackset-controller.zalando.org/prescale-stacks"
ResetHPAMinReplicasDelayAnnotationKey ==
    "alpha.stackset-controller.zalando.org/reset-hpa-min-replicas-delay"

\* 10 * time.Minute, in minutes.
defaultResetMinReplicasDelay == 10

\* time.ParseDuration on the values the annotation takes in the model: the
\* duration in minutes, or an error for a string without a unit, an empty
\* string and a word.
ParseDuration(str) ==
    CASE str = "5m" -> [err |-> FALSE, d |-> 5]
      [] str = "-1m" -> [err |-> FALSE, d |-> 0 - 1]
      [] str = "0" -> [err |-> FALSE, d |-> 0]
      [] OTHER -> [err |-> TRUE, d |-> 0]

DelayStrings == {"5m", "-1m", "0", "10", "", "soon"}

\* The annotations of a StackSet that matter here.
AnnotationMaps ==
    {kv \in UNION {[keys -> DelayStrings \cup {"true", "false"}] :
                     keys \in SUBSET {PrescaleStacksAnnotationKey,
                                      ResetHPAMinReplicasDelayAnnotationKey}} :
        /\ PrescaleStacksAnnotationKey \in DOMAIN kv =>
              kv[PrescaleStacksAnnotationKey] \in {"true", "false", ""}
        /\ ResetHPAMinReplicasDelayAnnotationKey \in DOMAIN kv =>
              kv[ResetHPAMinReplicasDelayAnnotationKey] \in DelayStrings}

\* getResetMinReplicasDelay: the parsed delay and true, or 0 and false.
getResetMinReplicasDelay(annotations) ==
    IF ResetHPAMinReplicasDelayAnnotationKey \notin DOMAIN annotations
    THEN [d |-> 0, ok |-> FALSE]
    ELSE LET parsed == ParseDuration(annotations[ResetHPAMinReplicasDelayAnnotationKey])
         IN  IF parsed.err THEN [d |-> 0, ok |-> FALSE]
             ELSE [d |-> parsed.d, ok |-> TRUE]

SimpleTrafficReconciler == [kind |-> "Simple", ResetHPAMinReplicasTimeout |-> 0]

TrafficReconcilerFor_PrescaleWhenTrue(annotations) ==
    \* mutant: prescaling is chosen by the value "true" of the annotation
    IF /\ PrescaleStacksAnnotationKey \in DOMAIN annotations
       /\ annotations[PrescaleStacksAnnotationKey] = "true"
    THEN [kind |-> "Prescaling",
          ResetHPAMinReplicasTimeout |->
             IF getResetMinReplicasDelay(annotations).ok
             THEN getResetMinReplicasDelay(annotations).d
             ELSE defaultResetMinReplicasDelay]
    ELSE SimpleTrafficReconciler

\* The reconciler collectResources gives the container of a stored StackSet.
TrafficReconcilerFor(annotations) ==
    IF PrescaleStacksAnnotationKey \in DOMAIN annotations
    THEN [kind |-> "Prescaling",
          ResetHPAMinReplicasTimeout |->
             IF getResetMinReplicasDelay(annotations).ok
             THEN getResetMinReplicasDelay(annotations).d
             ELSE defaultResetMinReplicasDelay]
    ELSE SimpleTrafficReconciler

\* The update handler sends the changed StackSet on the channel, at any
\* time, when its slot is free.
SelUpdateSent ==
    /\ selLoop # "off"
    /\ selEvent = None
    /\ \E annotations \in AnnotationMaps :
         /\ annotations # selStore
         /\ selEvent' = annotations
    /\ UNCHANGED <<selStore, selLoop, selContainer, selUsed,
                   runVars, recVars, resVars, statVars, cvVars, colVars, tmVars, evVars, ccVars, chVars>>

\* The event branch of the select: the entry of the store is replaced.
SelEventHandled ==
    /\ selLoop = "select"
    /\ selEvent # None
    /\ selStore' = selEvent
    /\ selEvent' = None
    /\ UNCHANGED <<selLoop, selContainer, selUsed,
                   runVars, recVars, resVars, statVars, cvVars, colVars, tmVars, evVars, ccVars, chVars>>

\* The tick branch: collectResources builds the container from a copy of the
\* stored StackSet, with its reconciler.
SelCollected ==
    /\ selLoop = "select"
    /\ selContainer' = [StackSet |-> selStore,
                        TrafficReconciler |-> TrafficReconcilerFor(selStore)]
    /\ selUsed' = <<>>
    /\ selLoop' = "tick"
    /\ UNCHANGED <<selStore, selEvent,
                   runVars, recVars, resVars, statVars, cvVars, colVars, tmVars, evVars, ccVars, chVars>>

\* ReconcileStackSet: container.ManageTraffic works with the reconciler of
\* the container.
SelManageTraffic ==
    /\ selLoop = "tick"
    /\ selUsed = <<>>
    /\ selUsed' = <<selContainer.TrafficReconciler>>
    /\ UNCHANGED <<selStore, selEvent, selLoop, selContainer,
                   runVars, recVars, resVars, statVars, cvVars, colVars, tmVars, evVars, ccVars, chVars>>

\* Wait and Report: the tick is over.
SelTickEnds ==
    /\ selLoop = "tick"
    /\ selUsed # <<>>
    /\ selLoop' = "select"
    /\ UNCHANGED <<selStore, selEvent, selContainer, selUsed,
                   runVars, recVars, resVars, statVars, cvVars, colVars, tmVars, evVars, ccVars, chVars>>

InitSelect ==
    /\ selStore \in AnnotationMaps
    /\ selEvent = None
    /\ selLoop = "select"
    /\ selContainer = None
    /\ selUsed = <<>>

IdleSelect ==
    /\ selStore = EmptyMap
    /\ selEvent = None
    /\ selLoop = "off"
    /\ selContainer = None
    /\ selUsed = <<>>

NextSelect ==
    \/ SelUpdateSent
    \/ SelEventHandled
    \/ SelCollected
    \/ SelManageTraffic
    \/ SelTickEnds

-----------------------------------------------------------------------------
(* The event channel between the informer's handlers and the main loop     *)

\* Notifications are numbered in the order the informer hands them to the
\* handlers, modulo MaxNotification + 1.
NotificationIds == 0..MaxNotification

NextId(id) == (id + 1) % (MaxNotification + 1)

\* The informer calls add, update or del with the next notification; it
\* calls one handler at a time. The handler copies the object and arrives at
\* its send statement.
ChHandlerCalled ==
    /\ chLoop # "off"
    /\ chHandler = <<>>
    /\ chHandler' = <<chNextId>>
    /\ chNextId' = NextId(chNextId)
    /\ UNCHANGED <<chChannel, chLoop, chStore, chExpected, chCancelled, chRemaining,
                   runVars, recVars, resVars, statVars, cvVars, colVars, tmVars, evVars, ccVars, selVars>>

ChSend_DropsWhenFull ==
    \* mutant: the send does not block, a notification that finds the
    \* channel full is dropped
    /\ chHandler # <<>>
    /\ chChannel' = IF Len(chChannel) < 1 THEN Append(chChannel, chHandler[1]) ELSE chChannel
    /\ chHandler' = <<>>
    /\ UNCHANGED <<chLoop, chNextId, chStore, chExpected, chCancelled, chRemaining,
                   runVars, recVars, resVars, statVars, cvVars, colVars, tmVars, evVars, ccVars, selVars>>

\* c.stacksetEvents <- stacksetEvent{...}: the send on the channel of
\* capacity 1 blocks while the channel is full; then the handler returns.
ChSend ==
    /\ chHandler # <<>>
    /\ Len(chChannel) < 1
    /\ chChannel' = Append(chChannel, chHandler[1])
    /\ chHandler' = <<>>
    /\ UNCHANGED <<chLoop, chNextId, chStore, chExpected, chCancelled, chRemaining,
                   runVars, recVars, resVars, statVars, cvVars, colVars, tmVars, evVars, ccVars, selVars>>

\* case e := <-c.stacksetEvents: the event is received and the store entry
\* of its StackSet is set, replaced or deleted.
ChReceive ==
    /\ chLoop = "select"
    /\ chChannel # <<>>
    /\ chStore' = <<Head(chChannel)>>
    /\ chExpected' = NextId(chExpected)
    /\ chChannel' = Tail(chChannel)
    /\ UNCHANGED <<chHandler, chLoop, chNextId, chCancelled, chRemaining,
                   runVars, recVars, resVars, statVars, cvVars, colVars, tmVars, evVars, ccVars, selVars>>

\* case <-time.After(time.Until(nextCheck)): the timer is rebuilt from
\* nextCheck at every pass of the loop, so receiving events does not put the
\* tick off; the case is ready once nextCheck is reached. Then
\* nextCheck = time.Now().Add(c.config.Interval).
ChTick ==
    /\ chLoop = "select"
    /\ chRemaining = 0
    /\ chLoop' = "tick"
    /\ chRemaining' = MaxInterval
    /\ UNCHANGED <<chChannel, chHandler, chNextId, chStore, chExpected, chCancelled,
                   runVars, recVars, resVars, statVars, cvVars, colVars, tmVars, evVars, ccVars, selVars>>

\* Time passes, during a tick as well: nextCheck comes nearer.
ChTimePasses ==
    /\ chLoop \in {"select", "tick"}
    /\ chRemaining > 0
    /\ chRemaining' = chRemaining - 1
    /\ UNCHANGED <<chChannel, chHandler, chLoop, chNextId, chStore, chExpected, chCancelled,
                   runVars, recVars, resVars, statVars, cvVars, colVars, tmVars, evVars, ccVars, selVars>>

\* collectResources failed, or Wait and Report have returned: the loop
\* selects again.
ChTickReturns ==
    /\ chLoop = "tick"
    /\ chLoop' = "select"
    /\ UNCHANGED <<chChannel, chHandler, chNextId, chStore, chExpected, chCancelled, chRemaining,
                   runVars, recVars, resVars, statVars, cvVars, colVars, tmVars, evVars, ccVars, selVars>>

\* The context is cancelled.
ChCancel ==
    /\ chLoop # "off"
    /\ ~chCancelled
    /\ chCancelled' = TRUE
    /\ UNCHANGED <<chChannel, chHandler, chLoop, chNextId, chStore, chExpected, chRemaining,
                   runVars, recVars, resVars, statVars, cvVars, colVars, tmVars, evVars, ccVars, selVars>>

\* case <-ctx.Done(): return nil
ChTerminate ==
    /\ chLoop = "select"
    /\ chCancelled
    /\ chLoop' = "stopped"
    /\ UNCHANGED <<chChannel, chHandler, chNextId, chStore, chExpected, chCancelled, chRemaining,
                   runVars, recVars, resVars, statVars, cvVars, colVars, tmVars, evVars, ccVars, selVars>>

\* make(chan stacksetEvent, 1): the channel is empty; the numbering may
\* start anywhere. nextCheck = time.Now().Add(-c.config.Interval): the first
\* tick is due.
InitChannel ==
    /\ chChannel = <<>>
    /\ chHandler = <<>>
    /\ chLoop = "select"
    /\ chNextId \in NotificationIds
    /\ chExpected = chNextId
    /\ chStore = <<>>
    /\ chCancelled = FALSE
    /\ chRemaining = 0

IdleChannel ==
    /\ chChannel = <<>>
    /\ chHandler = <<>>
    /\ chLoop = "off"
    /\ chNextId = 0
    /\ chExpected = 0
    /\ chStore = <<>>
    /\ chCancelled = FALSE
    /\ chRemaining = 0

NextChannel ==
    \/ ChHandlerCalled
    \/ ChSend
    \/ ChReceive
    \/ ChTick
    \/ ChTickReturns
    \/ ChTimePasses
    \/ ChCancel
    \/ ChTerminate

InitRun ==
    /\ controllerID \in ControllerIDs
    /\ reconcileWorkers \in 1..MaxWorkers
    /\ stacksetEvents = <<>>
    /\ stacksetStore = EmptyMap
    /\ loop = "select"
    /\ containers = EmptyMap
    /\ worker = EmptyMap
    /\ result = EmptyMap
    /\ panics = 0
    /\ access = {}
    /\ lastHandled = None
    /\ cancelled = FALSE

\* The values the variables of the main loop keep under the other
\* specifications.
IdleRun ==
    /\ controllerID = ""
    /\ reconcileWorkers = 1
    /\ stacksetEvents = <<>>
    /\ stacksetStore = EmptyMap
    /\ loop = "off"
    /\ containers = EmptyMap
    /\ worker = EmptyMap
    /\ result = EmptyMap
    /\ panics = 0
    /\ access = {}
    /\ lastHandled = None
    /\ cancelled = FALSE

Init == InitRun /\ IdleReconcile /\ IdleResources /\ IdleStatus /\ IdleConverge /\ IdleCollect /\ IdleClock /\ IdleEvents /\ IdleCreate /\ IdleSelect /\ IdleChannel

Next ==
    \/ add
    \/ update
    \/ del
    \/ HandleEvent
    \/ TickCollectFails
    \/ Tick
    \/ \E uid \in UIDs : Go(uid)
    \/ \E uid \in UIDs : WorkerStart(uid)
    \/ \E uid \in UIDs : ReconcileStackSet(uid)
    \/ Dispatched
    \/ Wait
    \/ Report
    \/ Cancel
    \/ Terminate

Spec == Init /\ [][Next]_vars

InitSpecReconcile == IdleRun /\ InitReconcile /\ IdleResources /\ IdleStatus /\ IdleConverge /\ IdleCollect /\ IdleClock /\ IdleEvents /\ IdleCreate /\ IdleSelect /\ IdleChannel

SpecReconcile == InitSpecReconcile /\ [][NextReconcile]_vars

InitSpecResources == IdleRun /\ IdleReconcileAnyFeatures /\ InitResources /\ IdleStatus /\ IdleConverge /\ IdleCollect /\ IdleClock /\ IdleEvents /\ IdleCreate /\ IdleSelect /\ IdleChannel

InitSpecStatus == IdleRun /\ IdleReconcile /\ IdleResources /\ InitStatus /\ IdleConverge /\ IdleCollect /\ IdleClock /\ IdleEvents /\ IdleCreate /\ IdleSelect /\ IdleChannel

SpecStatus == InitSpecStatus /\ [][NextStatus]_vars

\* The controller's goroutine is scheduled: ReconcileStatuses keeps running.
\* Nothing is assumed about the other writers of the store.
SpecStatusFair == SpecStatus /\ WF_vars(NextObject \/ Fetch \/ CompareAndUpdate)

\* ReconcileStatuses in a tick whose ReconcileStackSetDesiredTraffic has
\* updated the StackSet, with the same fairness.
InitSpecStatusTraffic == IdleRun /\ IdleReconcile /\ IdleResources /\ InitStatusTraffic /\ IdleConverge /\ IdleCollect /\ IdleClock /\ IdleEvents /\ IdleCreate /\ IdleSelect /\ IdleChannel

SpecStatusTraffic ==
    InitSpecStatusTraffic /\ [][NextStatus]_vars /\ WF_vars(NextObject \/ Fetch \/ CompareAndUpdate)

InitSpecConverge == IdleRun /\ IdleReconcile /\ IdleResources /\ IdleStatus /\ InitConverge /\ IdleCollect /\ IdleClock /\ IdleEvents /\ IdleCreate /\ IdleSelect /\ IdleChannel

SpecConverge == InitSpecConverge /\ [][NextConverge]_vars

InitSpecCollect ==
    IdleRun /\ IdleReconcile /\ IdleResources /\ IdleStatus /\ IdleConverge /\ InitCollect /\ IdleClock /\ IdleEvents /\ IdleCreate /\ IdleSelect /\ IdleChannel

SpecCollect == InitSpecCollect /\ [][NextCollect]_vars

InitSpecClock ==
    IdleRun /\ IdleReconcile /\ IdleResources /\ IdleStatus /\ IdleConverge /\ IdleCollect /\ InitClock /\ IdleEvents /\ IdleCreate /\ IdleSelect /\ IdleChannel

SpecClock == InitSpecClock /\ [][NextClock]_vars

\* The configurations the events are followed under: every optional kind of
\* resource off, or every one on.
UniformFeatureSets == {f \in AllFeatureSets : \A a, b \in DOMAIN f : f[a] = f[b]}

InitSpecEvents ==
    IdleRun /\ IdleReconcileAnyFeatures /\ features \in UniformFeatureSets /\ IdleResources /\ IdleStatus /\ IdleConverge /\ IdleCollect /\ IdleClock /\ InitEvents /\ IdleCreate /\ IdleSelect /\ IdleChannel

SpecEvents == InitSpecEvents /\ [][NextEvents]_vars

InitSpecCreate ==
    IdleRun /\ IdleReconcileAnyFeatures /\ IdleResources /\ IdleStatus /\ IdleConverge /\ IdleCollect /\ IdleClock /\ IdleEvents /\ InitCreate /\ IdleSelect /\ IdleChannel

SpecCreate == InitSpecCreate /\ [][NextCreate]_vars

InitSpecSelect ==
    IdleRun /\ IdleReconcile /\ IdleResources /\ IdleStatus /\ IdleConverge /\ IdleCollect /\ IdleClock /\ IdleEvents /\ IdleCreate /\ InitSelect /\ IdleChannel

SpecSelect == InitSpecSelect /\ [][NextSelect]_vars

InitSpecChannel ==
    IdleRun /\ IdleReconcile /\ IdleResources /\ IdleStatus /\ IdleConverge /\ IdleCollect /\ IdleClock /\ IdleEvents /\ IdleCreate /\ IdleSelect /\ InitChannel

\* The handler's goroutine is scheduled, time passes and a tick returns
\* (weak fairness);
\* a case of the select that is ready again and again is chosen at some
\* time, the choice among the ready cases being random (strong fairness).
SpecChannel ==
    /\ InitSpecChannel
    /\ [][NextChannel]_vars
    /\ WF_vars(ChSend)
    /\ WF_vars(ChTickReturns)
    /\ WF_vars(ChTimePasses)
    /\ SF_vars(ChReceive)
    /\ SF_vars(ChTick)

SpecResources == InitSpecResources /\ [][NextResources]_vars

-----------------------------------------------------------------------------
(* Claims about the main loop, checked under Spec                          *)

\* The claim's own reading of "matches": the annotation equals the controller
\* ID, or there is no annotation and the controller ID is empty.
C1_Matches(owner) ==
    \/ owner # NoAnnotation /\ owner = controllerID
    \/ owner = NoAnnotation /\ controllerID = ""

\* C1: a StackSet whose controller annotation does not match the controller's
\* ID is never held in the watched store and never in a container of a tick
\* (the containers are the only objects passed to ReconcileStackSet, and
\* ReconcileStackSet the only place store calls are issued); and when the
\* event branch has consumed an event carrying a StackSet that does not
\* match, the store holds no entry for its UID, until the next event or tick.
C1_OwnershipRefusal ==
    /\ \A uid \in DOMAIN stacksetStore : C1_Matches(stacksetStore[uid].owner)
    /\ \A uid \in DOMAIN containers : C1_Matches(containers[uid].owner)
    /\ \A uid \in DOMAIN worker :
         worker[uid] = "reconciling" => C1_Matches(containers[uid].owner)
    /\ (lastHandled # None /\ ~C1_Matches(lastHandled.owner))
         => lastHandled.UID \notin DOMAIN stacksetStore

\* C1 witness: an update event for a StackSet held in the store, whose
\* annotation no longer matches, has been consumed.
C1_Witness ==
    /\ lastHandled # None
    /\ lastHandled.stored
    /\ ~lastHandled.Deleted
    /\ ~C1_Matches(lastHandled.owner)
    /\ controllerID # ""

\* C7: a panic in ReconcileStackSet never ends the main loop; it is counted
\* once and returned as an ordinary error; and when Wait has returned, every
\* StackSet dispatched in the tick has run to completion.
C7_StateOk ==
    /\ loop \in {"select", "dispatch", "wait", "report", "stopped"}
    /\ loop = "report" =>
         \A uid \in DOMAIN containers :
            /\ worker[uid] = "done"
            /\ result[uid] \in {"nil", "error", PanicError}

C7_CountedOnce ==
    \A uid \in UIDs :
       (/\ uid \in DOMAIN result
        /\ uid \in DOMAIN result'
        /\ result[uid] # PanicError
        /\ result'[uid] = PanicError)
       => (panics' = panics + 1 /\ worker'[uid] = "done")

C7_PanicIsolated == [](C7_StateOk) /\ [][C7_CountedOnce]_vars

\* C7 witness: in one tick one StackSet's reconciliation panicked and another
\* one's returned nil, and Wait has returned.
C7_Witness ==
    /\ loop = "report"
    /\ \E u, v \in DOMAIN result :
         /\ u # v
         /\ result[u] = PanicError
         /\ result[v] = "nil"

\* C8 as stated: the store is written only by the event branch and a worker
\* never accesses it.
C8_WorkerNeverAccessesStore ==
    \A a \in access :
       /\ a[2] = "write" => a[1] = "event"
       /\ a[1] # "worker"

\* C8 amended: the store is written only by the event branch; a worker only
\* reads it (the membership test before ReconcileStackSet), and it runs only
\* while the main loop is inside the tick, between dispatch and the return of
\* Wait, where the event branch cannot execute.
C8_WorkerOnlyReadsStore ==
    /\ \A a \in access : a[2] = "write" => a[1] = "event"
    /\ \A uid \in DOMAIN worker :
         worker[uid] \in {"started", "reconciling"} => loop \in {"dispatch", "wait"}

\* C8 witness: a worker has performed its membership test on the store.
C8_Witness == <<"worker", "read">> \in access /\ <<"event", "write">> \in access

-----------------------------------------------------------------------------
(* Claims about ReconcileStackSet, checked under SpecReconcile             *)

\* C2: for every revision, at most one Create call succeeds, and once one
\* has succeeded no further Create call is issued for that revision, also
\* when the tick that created the Stack failed to persist
\* ObservedStackVersion and the next tick rebuilds the container from a
\* fresh listing.
C2_CreateAtMostOnce ==
    \A v \in DOMAIN createLog :
       /\ createLog[v].ok <= 1
       /\ createLog[v].after = 0

\* C2 witness: the Stack of the desired revision was created in an earlier
\* tick whose UpdateStatus failed (ObservedStackVersion still differs), and
\* CreateCurrentStack of this tick has run without creating anything.
C2_Witness ==
    /\ rpc = "UpdateFromResources"
    /\ createLog[ssc.StackSet.desired].ok = 1
    /\ ssc.StackSet.observed # ssc.StackSet.desired
    /\ apiStackSet.observed # ssc.StackSet.desired
    /\ ssc.StackSet.desired \in ssc.StackContainers
    /\ recEvents = <<>>

C6_Before(a, b) ==
    \A i, j \in 1..Len(stageLog) : (stageLog[i] = a /\ stageLog[j] = b) => i < j

\* C6 as stated: collection, then every lifecycle decision (stack creation
\* and marking expired stacks), then traffic computation, then segment
\* planning, then convergence, then the status write.
C6_LifecycleBeforeTraffic ==
    /\ C6_Before("collectResources", "CreateCurrentStack")
    /\ C6_Before("collectResources", "MarkExpiredStacks")
    /\ C6_Before("CreateCurrentStack", "ManageTraffic")
    /\ C6_Before("MarkExpiredStacks", "ManageTraffic")
    /\ C6_Before("ManageTraffic", "ReconcileTrafficSegments")
    /\ C6_Before("ReconcileTrafficSegments", "ReconcileStackResources")
    /\ C6_Before("ReconcileStackResources", "ReconcileStatuses")

C6_Order ==
    << "collectResources", "CreateCurrentStack", "UpdateFromResources", "ManageTraffic",
       "MarkExpiredStacks", "ReconcileTrafficSegments", "ReconcileStackResources",
       "RecordTrafficSwitch", "ReconcileStackSetDesiredTraffic", "CleanupOldStacks",
       "ReconcileStatuses" >>

\* C6 amended: the stages of a tick run in the order collection, stack
\* creation, UpdateFromResources, ManageTraffic, MarkExpiredStacks, segment
\* planning, resource convergence, traffic-switch record, desired-traffic
\* update, cleanup, status write: each at most once, none before an earlier
\* one, and the status write only after all the others; marking expired
\* stacks comes after the traffic computation.
C6_StageOrder ==
    /\ Len(stageLog) <= Len(C6_Order)
    /\ \A i \in 1..Len(stageLog) : stageLog[i] = C6_Order[i]
    /\ (rpc = "return" /\ stageLog[Len(stageLog)] = "ReconcileStatuses")
         => Len(stageLog) = Len(C6_Order)

\* C6 witness: a tick has run all its stages down to the status write.
C6_Witness ==
    /\ rpc = "return"
    /\ Len(stageLog) = Len(C6_Order)
    /\ stageLog[Len(stageLog)] = "ReconcileStatuses"

C9_Attempted == {v \in Versions : \E r \in {"ok", "error"} : <<v, r>> \in deleteLog}
C9_Failed == {v \in Versions : <<v, "error">> \in deleteLog}
C9_CleanupReturned ==
    /\ rpc \in {"ReconcileStatuses", "return"}
    /\ \E i \in 1..Len(stageLog) : stageLog[i] = "CleanupOldStacks"
C9_FailureEvents ==
    Cardinality({i \in 1..Len(recEvents) : recEvents[i][1] = "FailedDeleteStack"})

\* C9 as stated: when CleanupOldStacks has returned, a Delete call was
\* attempted for every Stack flagged PendingRemoval.
C9_EveryFlaggedStackAttempted ==
    C9_CleanupReturned => ssc.PendingRemoval \subseteq C9_Attempted

\* C9 amended: Delete calls are attempted on flagged Stacks only, one after
\* another until the first failure, which is reported as one event and ends
\* the call; when no Delete fails every flagged Stack was attempted.
C9_AttemptedUntilFirstFailure ==
    /\ ssc # None => C9_Attempted \subseteq ssc.PendingRemoval
    /\ Cardinality(C9_Failed) <= 1
    /\ C9_FailureEvents = Cardinality(C9_Failed)
    /\ (C9_CleanupReturned /\ C9_Failed = {}) => C9_Attempted = ssc.PendingRemoval
    /\ (rpc = "CleanupOldStacks" /\ cleanupTodo # {}) => C9_Failed = {}

\* C9 witness: CleanupOldStacks has returned after a failed Delete and a
\* flagged Stack got no Delete attempt.
C9_Witness ==
    /\ C9_CleanupReturned
    /\ C9_Failed # {}
    /\ ssc.PendingRemoval \ C9_Attempted # {}

-----------------------------------------------------------------------------
(* Claims about resource convergence, checked under SpecResources          *)

\* The kinds that are enabled, as the claim lists them.
C10_EnabledKinds ==
    {"Ingress", "IngressSegment", "Deployment", "HPA", "Service"}
      \cup (IF features.RouteGroup THEN {"RouteGroup", "RouteGroupSegment"} ELSE {})
      \cup (IF features.ConfigMap THEN {"ConfigMapRefs"} ELSE {})
      \cup (IF features.Secret THEN {"SecretRefs"} ELSE {})
      \cup (IF features.Pcs THEN {"PlatformCredentialsSets"} ELSE {})

C10_Attempted(id) == {resLog[id][i] : i \in 1..Len(resLog[id])}

C10_Position(k) == CHOOSE i \in 1..Len(KindOrder) : KindOrder[i] = k

\* C10 as stated: when the convergence of a tick is over, every enabled kind
\* was attempted for every Stack of the StackSet, whatever failed.
C10_SiblingKindsStillAttempted ==
    resPc = "done" =>
       \A id \in resStacks : id \in DOMAIN resLog /\ C10_Attempted(id) = C10_EnabledKinds

\* C10 amended: when the convergence of a tick is over,
\* ReconcileStackResources was called for every Stack of the StackSet,
\* whatever failed for the others; for a Stack without failure every enabled
\* kind was attempted; for a Stack where a kind failed, exactly the enabled
\* kinds up to the failing one were attempted and the later ones were not.
C10_SiblingStacksStillAttempted ==
    /\ resPc = "done" => resStacks \subseteq DOMAIN resLog
    /\ \A id \in DOMAIN resLog :
         IF resFailed[id] = "none"
         THEN C10_Attempted(id) = C10_EnabledKinds
         ELSE C10_Attempted(id) =
                {k \in C10_EnabledKinds : C10_Position(k) <= C10_Position(resFailed[id])}

\* C10 witness: the convergence is over, one Stack's ingress segment failed
\* so that its deployment was not attempted, and another Stack was fully
\* reconciled after it.
C10_Witness ==
    /\ resPc = "done"
    /\ \E a, b \in DOMAIN resLog :
         /\ a # b
         /\ resFailed[a] = "IngressSegment"
         /\ "Deployment" \notin C10_Attempted(a)
         /\ resFailed[b] = "none"
         /\ segsInOrder = <<a, b>>


C24_Called == DOMAIN resLog

C24_Planned == {segsInOrder[i] : i \in 1..Len(segsInOrder)}

C24_PlannerFailed ==
    \E i \in 1..Len(resEvents) : resEvents[i] = <<"FailedManageSegments", "stackset">>

\* A step that calls ReconcileStackResources calls it for one Stack that has
\* had no call in this tick: in the first loop the next Stack of the planner's
\* order, in the second loop a Stack outside that order, after all of them.
C24_StepOk ==
    resLog' # resLog =>
       \E id \in resStacks \ C24_Called :
          /\ DOMAIN resLog' = C24_Called \cup {id}
          /\ \A other \in C24_Called : resLog'[other] = resLog[other]
          /\ resPc \in {"segmentStacks", "otherStacks"}
          /\ resPc = "segmentStacks" =>
                /\ Cardinality(C24_Called) < Len(segsInOrder)
                /\ id = segsInOrder[Cardinality(C24_Called) + 1]
          /\ resPc = "otherStacks" =>
                /\ C24_Planned \subseteq C24_Called
                /\ id \notin C24_Planned

C24_StateOk ==
    /\ resPc = "done" => C24_Called = resStacks
    /\ C24_PlannerFailed => segsInOrder = <<>>

\* C24: in one tick ReconcileStackResources is called once for every Stack
\* of the container: first for the Stacks of the planner's order, in that
\* order, afterwards for the remaining Stacks; after a failure of the planner
\* (an empty order) every Stack is still called once.
C24_EveryStackOnceSegmentsFirst == [](C24_StateOk) /\ [][C24_StepOk]_vars

\* The loops are over with one Stack reconciled from the planner's order and
\* another one from the second loop.
C24_Witness ==
    /\ resPc = "done"
    /\ Len(segsInOrder) = 1
    /\ Cardinality(resStacks) = 2
    /\ C24_Called = resStacks

\* The loops are over after the planner failed, with two Stacks reconciled.
C24_WitnessPlannerFailed ==
    /\ resPc = "done"
    /\ C24_PlannerFailed
    /\ Cardinality(resStacks) = 2
    /\ C24_Called = resStacks

-----------------------------------------------------------------------------
(* Claims checked under SpecStatus                                         *)

C3_Fresh(i) ==
    /\ stTrace[i - 1].call = "Get"
    /\ stTrace[i - 1].answer = "nil"
    /\ stTrace[i - 1].status # GeneratedStatus(stObj)
    /\ stTrace[i].rv = stTrace[i - 1].rv
    /\ stTrace[i].status = GeneratedStatus(stObj)

C3_NoDiff(i) ==
    /\ stTrace[i].call = "Get"
    /\ stTrace[i].answer = "nil"
    /\ stTrace[i].status = GeneratedStatus(stObj)

C3_Diff(i) ==
    /\ stTrace[i].call = "Get"
    /\ stTrace[i].answer = "nil"
    /\ stTrace[i].status # GeneratedStatus(stObj)

\* C3: within one retryUpdate of ReconcileStatuses, an UpdateStatus that is
\* answered with a conflict is followed by a Get of the object and by nothing
\* else; every UpdateStatus after the first is sent with the resource version
\* of the object the preceding Get returned, a status that differs from that
\* object's status and equals the computed one; and a Get that returns an
\* object whose status already equals the computed one is the last call of
\* the retryUpdate, which then returns nil, while a Get that returns an
\* object with a different status is followed by an UpdateStatus.
C3_RetryOnFreshObject ==
    /\ \A i \in 1..Len(stTrace) :
         /\ (stTrace[i].call = "UpdateStatus" /\ i > 1) => C3_Fresh(i)
         /\ stTrace[i].call = "Get" =>
              /\ i > 1
              /\ stTrace[i - 1].call = "UpdateStatus"
              /\ stTrace[i - 1].answer = "conflict"
         /\ (stTrace[i].answer = "conflict" /\ i < Len(stTrace)) =>
              stTrace[i + 1].call = "Get"
         /\ C3_NoDiff(i) =>
              /\ i = Len(stTrace)
              /\ stPc = "compare" \/ (stObj \in stDone /\ stErr # "error")
         /\ (C3_Diff(i) /\ i = Len(stTrace)) => stPc = "compare"
    /\ (Len(stTrace) > 0 /\ stTrace[Len(stTrace)].answer = "conflict") =>
         (stPc = "fetch" /\ stRetry)

C3_Witness ==
    /\ Len(stTrace) = 4
    /\ stTrace[1].answer = "conflict"
    /\ stTrace[2].call = "Get"
    /\ stTrace[3].answer = "conflict"
    /\ C3_NoDiff(4)
    /\ stObj \in stDone

-----------------------------------------------------------------------------
(* Further claims checked under SpecStatus                                  *)

\* The status of the object read last before call i of the trace: that of
\* the listed object for the first call, that of the object the Get before
\* it returned otherwise.
C22_LastRead(i) == IF i = 1 THEN stListed[stObj] ELSE stTrace[i - 1].status

\* C22: every UpdateStatus of ReconcileStatuses is for an object whose
\* computed status differs from the status of the object read last (the
\* listed one, or the one the preceding Get returned), and while the
\* StackSet is worked on, and after, every Stack has been processed.
C22_NoWriteWhenStatusEqual ==
    /\ \A i \in 1..Len(stTrace) :
         stTrace[i].call = "UpdateStatus" =>
            /\ i > 1 => (stTrace[i - 1].call = "Get" /\ stTrace[i - 1].answer = "nil")
            /\ C22_LastRead(i) # GeneratedStatus(stObj)
    /\ (stPc \in {"compare", "fetch"} /\ stObj = 0) => StatusStacks \subseteq stDone
    /\ 0 \in stDone => StatusStacks \subseteq stDone

\* ReconcileStatuses has returned nil with nobody else writing: the Stacks
\* were listed with the computed status and went without a call, the
\* StackSet was not and got its one UpdateStatus.
C22_Witness ==
    /\ stPc = "done"
    /\ stErr = "nil"
    /\ extWrites = 0
    /\ \A o \in StatusStacks : stListed[o] = GeneratedStatus(o) /\ apiStatus[o].rv = 1
    /\ stListed[0] # GeneratedStatus(0)
    /\ Len(stTrace) = 1
    /\ stTrace[1].call = "UpdateStatus"
    /\ apiStatus[0].rv = 2


\* C28: ReconcileStatuses makes no Get and no UpdateStatus call for a Stack
\* that CleanupOldStacks has deleted in the tick, and does not fail on it.
\* Refuted by the model of the code: see C28_StatusStageFailsOnDeleted.
C28_DeletedStackIsNotWritten ==
    (stPc # "start" /\ stObj \in stDeleted) =>
        /\ stTrace = <<>>
        /\ ~(stPc = "done" /\ stErr = "error")

\* What holds: a deleted Stack gets no call only when its listed status
\* equals the generated one; otherwise UpdateStatus is called once for it
\* and its error ends ReconcileStatuses.
C28_DeletedStackWrittenWhenStatusDiffers ==
    (stPc # "start" /\ stObj \in stDeleted) =>
        IF stListed[stObj] = GeneratedStatus(stObj)
        THEN stTrace = <<>>
        ELSE stPc = "compare" \/
             /\ stPc = "done"
             /\ stErr = "error"
             /\ Len(stTrace) = 1
             /\ stTrace[1].call = "UpdateStatus"
             /\ 0 \notin stDone

\* ReconcileStatuses has returned the error of the UpdateStatus call for a
\* deleted Stack; the other Stack and the StackSet, whose statuses differ
\* from the listed ones, have not been written.
C28_StatusStageFailsOnDeleted ==
    /\ stPc = "done"
    /\ stErr = "error"
    /\ stObj \in stDeleted
    /\ Len(stTrace) = 1
    /\ stTrace[1].call = "UpdateStatus"
    /\ stDone = {}
    /\ \A o \in StatusObjects \ stDeleted :
          /\ stListed[o] # GeneratedStatus(o)
          /\ apiStatus[o].status = stListed[o]

-----------------------------------------------------------------------------
(* Claims checked under SpecStatusFair                                     *)

\* The answers updateFn has returned in the current retryUpdate: the answer
\* of each UpdateStatus and of each failed Get (after a Get that succeeds
\* updateFn goes on).
C25_Returned ==
    SelectSeq(stTrace, LAMBDA e : e.call = "UpdateStatus" \/ e.answer # "nil")

C25_Conflicts == Len(SelectSeq(C25_Returned, LAMBDA e : e.answer = "conflict"))

\* While retryUpdate runs, every answer so far was a conflict, and the retry
\* flag is set exactly from the second attempt on.
C25_StateOk ==
    stPc \in {"compare", "fetch"} =>
       /\ \A i \in 1..Len(C25_Returned) : C25_Returned[i].answer = "conflict"
       /\ stRetry = (Len(C25_Returned) > 0)

\* A step in which updateFn returns: a conflict leads to another attempt
\* with retry set, nil and any other error end retryUpdate, the error being
\* what ReconcileStatuses returns.
C25_StepOk ==
    (stPc \in {"compare", "fetch"} /\ (stPc' # stPc \/ stTrace' # stTrace)) =>
       LET answer == IF stTrace' = stTrace THEN "nil" ELSE stTrace'[Len(stTrace')].answer
           call == IF stTrace' = stTrace THEN "none" ELSE stTrace'[Len(stTrace')].call
       IN  /\ stTrace' # stTrace => Len(stTrace') = Len(stTrace) + 1
           /\ answer = "conflict" => stPc' = "fetch" /\ stRetry'
           /\ answer = "error" => stPc' = "done" /\ stErr' = "error"
           /\ (answer = "nil" /\ call = "Get") => stPc' = "compare" /\ stRetry' = stRetry
           /\ (answer = "nil" /\ call # "Get") =>
                  /\ stPc' \in {"start", "done"}
                  /\ stObj \in stDone'

\* C25: retryUpdate returns as soon as updateFn returns nil or an error that
\* is not a conflict, which it returns as it is; it repeats only after a
\* conflict, with retry set on every attempt after the first; as the store
\* answers with a conflict finitely often, ReconcileStatuses ends. The
\* number of attempts is the number of conflicts plus one, whatever it is.
C25_RetriesOnlyOnConflict ==
    /\ [](C25_StateOk)
    /\ [][C25_StepOk]_vars
    /\ <>(stPc = "done")

\* retryUpdate ended at its attempt number MaxExternalWrites + 1: every
\* write of another actor cost one attempt.
C25_Witness ==
    /\ stPc \in {"start", "done"}
    /\ stObj \in stDone
    /\ C25_Conflicts = MaxExternalWrites
    /\ Len(C25_Returned) = MaxExternalWrites + 1
    /\ C25_Returned[Len(C25_Returned)].answer = "nil"

-----------------------------------------------------------------------------
(* Claims checked under SpecConverge                                       *)

\* The last call had an existing and a desired object that agree: the
\* desired spec is derivative-compatible, the labels are equal and so are
\* the annotations other than the stamp.
C4_Agree ==
    /\ cvLast # None
    /\ cvLast.existing # None
    /\ cvLast.desired # None
    /\ \A f \in DOMAIN cvLast.desired.Spec :
         cvLast.desired.Spec[f] = 0 \/ cvLast.desired.Spec[f] = cvLast.existing.Spec[f]
    /\ cvLast.desired.Labels.kv = cvLast.existing.Labels.kv
    /\ cvLast.desired.Annotations.kv =
         MapDelete(cvLast.existing.Annotations.kv, ControllerLastUpdatedAnnotationKey)

C4_Stamped ==
    ControllerLastUpdatedAnnotationKey \in DOMAIN cvLast.existing.Annotations.kv

\* C4 as stated: whenever existing and desired agree, the call issues neither
\* a Create nor an Update, with or without the stamp on existing.
C4_NoWriteWhenEqual == C4_Agree => cvLast.call = "none"

\* C4: when existing and desired agree and existing carries the stamp, the
\* call issues neither a Create nor an Update; when they agree and existing
\* carries no stamp, the call issues one Update.
C4_NoWriteWhenEqualAndStamped ==
    /\ (C4_Agree /\ C4_Stamped) => cvLast.call = "none"
    /\ (C4_Agree /\ ~C4_Stamped) => cvLast.call = "Update"

C4_Witness ==
    /\ C4_Agree
    /\ C4_Stamped
    /\ cvLast.existing.Annotations.kv[ControllerLastUpdatedAnnotationKey] = 1
    /\ cvLast.desired.Annotations.isNil
    /\ cvLast.call = "none"

-----------------------------------------------------------------------------
(* Claims checked under SpecCollect                                        *)

C5_SingleSlots ==
    {"Stack", "Ingress", "IngressSegment", "RouteGroup", "RouteGroupSegment",
     "Deployment", "Service", "HPA"}

C5_SliceSlots == {"ConfigMaps", "Secrets", "PlatformCredentialsSets"}

\* The objects the slots of the map hold.
C5_Attached ==
    UNION { {colStacksets[ss].Ingress, colStacksets[ss].RouteGroup} \cup
            UNION { {colStacksets[ss].StackContainers[st][slot] : slot \in C5_SingleSlots} \cup
                    UNION { {colStacksets[ss].StackContainers[st][slot][i] :
                               i \in 1..Len(colStacksets[ss].StackContainers[st][slot])} :
                            slot \in C5_SliceSlots } :
                    st \in DOMAIN colStacksets[ss].StackContainers } :
            ss \in DOMAIN colStacksets } \ {None}

\* C5: every object held by a slot of a StackSetContainer or of a
\* StackContainer (Stack, Ingress, segment Ingress, RouteGroup, segment
\* RouteGroup, Deployment, Service, HPA, ConfigMaps, Secrets,
\* PlatformCredentialsSets) has exactly one owner reference, while
\* collectResources runs and after it returned.
C5_AttachedHaveOneOwner ==
    \A object \in C5_Attached : Len(object.OwnerReferences) = 1

C5_Witness ==
    /\ colPc = "done"
    /\ colRejected
    /\ Cardinality(C5_Attached) >= 2
    /\ \E object \in C5_Attached : object.OwnerReferences = <<"d1">>

-----------------------------------------------------------------------------
(* Further claims checked under SpecCollect                                 *)

C21_Slot == IF colPc = "Services" THEN "Service" ELSE "HPA"

\* The Stacks the containers hold, each with the StackSet that holds it.
C21_Held ==
    {<<ss, st>> \in (DOMAIN colStacksets) \X {StackUIDOf[i] : i \in 1..Len(StackUIDOf)} :
        st \in DOMAIN colStacksets[ss].StackContainers}

\* Where an object with the owner-reference list refs belongs: the Stack
\* that is its single owner or, when no Stack is, the Stack whose
\* Deployment is.
C21_Targets(refs) ==
    IF Len(refs) # 1 THEN {}
    ELSE LET direct == {h \in C21_Held : h[2] = refs[1]}
             via == {h \in C21_Held :
                       /\ colStacksets[h[1]].StackContainers[h[2]].Deployment # None
                       /\ colStacksets[h[1]].StackContainers[h[2]].Deployment.UID = refs[1]}
         IN  IF direct # {} THEN direct ELSE via

\* The map is the one at hand with the object in the slots of the Stacks
\* it belongs to, and nothing else changed.
C21_ResultOk(object, after) ==
    /\ DOMAIN after = DOMAIN colStacksets
    /\ \A ss \in DOMAIN colStacksets :
         /\ DOMAIN after[ss].StackContainers = DOMAIN colStacksets[ss].StackContainers
         /\ \A st \in DOMAIN colStacksets[ss].StackContainers :
              after[ss].StackContainers[st] =
                 IF <<ss, st>> \in C21_Targets(object.OwnerReferences)
                 THEN [colStacksets[ss].StackContainers[st] EXCEPT ![C21_Slot] = object]
                 ELSE colStacksets[ss].StackContainers[st]

C21_Ordered ==
    /\ ListingIndex("Deployments") < ListingIndex("Services")
    /\ ListingIndex("Deployments") < ListingIndex("HPAs")
    /\ colPc \in {"Stacks", "Ingresses", "RouteGroups"} =>
          \A h \in C21_Held : \A slot \in {"Deployment", "Service", "HPA"} :
             colStacksets[h[1]].StackContainers[h[2]][slot] = None

C21_Sound ==
    \A h \in C21_Held : \A slot \in {"Service", "HPA"} :
       LET sc == colStacksets[h[1]].StackContainers[h[2]]
       IN  sc[slot] # None =>
              /\ Len(sc[slot].OwnerReferences) = 1
              /\ \/ sc[slot].OwnerReferences[1] = h[2]
                 \/ sc.Deployment # None /\ sc.Deployment.UID = sc[slot].OwnerReferences[1]

\* C21: while the Services and the HPAs are handled, whatever object comes
\* next, it goes to the slot of the Stack that is its single owner, or to
\* the slot of the Stack whose attached Deployment is its single owner, and
\* nothing else in the containers changes.  The Deployments are listed
\* before the Services and the HPAs, no slot of the three is filled before
\* the Deployments are listed, and a slot never holds a Service or HPA owned
\* by anything else.
C21_AttachedViaStackOrDeployment ==
    /\ C21_Ordered
    /\ C21_Sound
    /\ colPc \in {"Services", "HPAs"} =>
          \A object \in ObjectMetas({"o"}) :
             /\ AttachedViaDeployment(object, C21_Slot) # {}
             /\ \A after \in AttachedViaDeployment(object, C21_Slot) :
                   C21_ResultOk(object, after)

\* A Stack holds its Deployment, a Service owned by that Deployment and an
\* HPA owned by the Stack itself.
C21_Witness ==
    \E h \in C21_Held :
       LET sc == colStacksets[h[1]].StackContainers[h[2]]
       IN  /\ sc.Deployment # None
           /\ sc.Service # None
           /\ sc.Service.OwnerReferences = <<sc.Deployment.UID>>
           /\ sc.HPA # None
           /\ sc.HPA.OwnerReferences = <<h[2]>>

-----------------------------------------------------------------------------
(* Further claims checked under SpecReconcile                              *)

C11_Stages == {stageLog[i] : i \in 1..Len(stageLog)}

C11_Reasons == {recEvents[i][1] : i \in 1..Len(recEvents)}

\* C11: when ReconcileStackSet has returned in a tick whose
\* UpdateFromResources succeeded (the stage after it was entered), both
\* CleanupOldStacks and ReconcileStatuses have run in that tick, whatever
\* the stages before them answered.
C11_CleanupAndStatusesRun ==
    (rpc = "return" /\ "ManageTraffic" \in C11_Stages) =>
        {"CleanupOldStacks", "ReconcileStatuses"} \subseteq C11_Stages

C11_Witness ==
    /\ rpc = "return"
    /\ {"FailedCreateStack", "TrafficNotSwitched", "FailedManageSegments",
        "FailedManageIngress"} \subseteq C11_Reasons
    /\ {"CleanupOldStacks", "ReconcileStatuses"} \subseteq C11_Stages

C13_CleanupReturned ==
    /\ rpc \in {"ReconcileStatuses", "return"}
    /\ "CleanupOldStacks" \in C11_Stages

C13_Deleted == {v \in Versions : <<v, "ok">> \in deleteLog}

C13_DeletedEvents(v) ==
    Cardinality({i \in 1..Len(recEvents) : recEvents[i] = <<"DeletedExcessStack", v>>})

C17_ControllerStep == rpc # "idle"

C17_SpecOf(stackset) == [desired |-> stackset.desired, traffic |-> stackset.traffic]

\* C17 as stated: no step of the controller changes the spec of the StackSet
\* in the external store, its traffic included.
C17_SpecNeverWritten ==
    [][C17_ControllerStep => C17_SpecOf(apiStackSet') = C17_SpecOf(apiStackSet)]_vars

C17_TrafficWritten == apiStackSet'.traffic # apiStackSet.traffic

\* C17, amended: the controller writes the status of the StackSet and one
\* part of its spec, the traffic list: ReconcileStackSetDesiredTraffic
\* replaces it by the generated traffic when the two differ, and changes
\* nothing else of the object; no other step of the controller changes the
\* spec.
C17_OnlyTrafficOfSpecWritten ==
    [][C17_ControllerStep =>
         /\ apiStackSet'.desired = apiStackSet.desired
         /\ C17_TrafficWritten =>
              /\ rpc = "ReconcileStackSetDesiredTraffic"
              /\ GenerateStackSetTraffic(ssc) # ssc.StackSet.traffic
              /\ apiStackSet' = [apiStackSet EXCEPT !.traffic = GenerateStackSetTraffic(ssc)]]_vars

\* ReconcileStackSetDesiredTraffic has updated the StackSet: the traffic of
\* the stored object is no longer the one the tick collected.
C17_Witness ==
    /\ rpc = "CleanupOldStacks"
    /\ stageLog # <<>>
    /\ stageLog[Len(stageLog)] = "ReconcileStackSetDesiredTraffic"
    /\ recEvents # <<>>
    /\ recEvents[Len(recEvents)] = <<"UpdatedStackSet", "stackset">>
    /\ apiStackSet.traffic # storeStackSet.traffic

\* The Stacks a step takes out of the external store.
C18_Removed == DOMAIN apiStacks \ DOMAIN apiStacks'

C18_ConvergerNeverDeletes ==
    cvLast # None =>
        /\ cvLast.call \in {"none", "Create", "Update"}
        /\ cvLast.existing # None => cvApi # None
        /\ cvLast.desired = None => (cvLast.call = "none" /\ cvApi = cvLast.existing)

C18_WitnessConverger ==
    /\ cvLast # None
    /\ cvLast.desired = None
    /\ cvLast.existing # None

-----------------------------------------------------------------------------
(* Claims checked under SpecClock                                          *)

C12_FailedTick == tmLastTick # None /\ tmLastTick.outcome = "failed"

\* After a tick whose collectResources failed: the loop is back at its
\* select, no index is kept, nothing was reconciled and no write call was
\* issued in that tick, and the timer is set to one interval after the
\* start of the failed tick.
C12_StateOk ==
    C12_FailedTick =>
        /\ tmLoop = "select"
        /\ tmContainers = None
        /\ tmLastTick.reconciled = 0
        /\ ~tmLastTick.wrote
        /\ nextCheck = tmLastTick.start + tmInterval

\* The tick after a failed one starts no sooner than one interval after the
\* start of the failed one.
C12_NextTickStep ==
    (C12_FailedTick /\ tmLastTick' # tmLastTick) =>
        /\ tmLastTick'.outcome = "collecting"
        /\ tmLastTick'.start >= tmLastTick.start + tmInterval

\* C12: a failing listing of collectResources ends the tick with its index
\* discarded, without a reconciliation or a write call; the main loop keeps
\* running and starts its next tick when one interval has passed since the
\* start of the failed tick.
C12_CollectFailureSkipsTick == [](C12_StateOk) /\ [][C12_NextTickStep]_vars

C12_Witness ==
    /\ tmLastTick # None
    /\ tmLastTick.outcome = "reconciling"
    /\ tmLastTick.wrote
    /\ tmProbe # None
    /\ tmProbe.tick # None
    /\ tmProbe.tick.outcome = "failed"
    /\ tmLastTick.start = tmProbe.tick.start + tmInterval

\* The last liveness check was made after the first tick had started.
C15_Probed == tmProbe # None /\ tmProbe.tick # None

C15_Elapsed == tmProbe.at - tmProbe.tick.start

\* C15 as stated: the check fails exactly when more than 5 intervals have
\* passed since the start of the most recent tick.
C15_FailsAfterFiveIntervals ==
    (C15_Probed /\ ~tmProbe.racing) =>
        (tmProbe.failed <=> C15_Elapsed > 5 * tmInterval)

\* C15: a liveness check made after the first tick fails exactly when more
\* than 6 intervals have passed since the start of the most recent tick,
\* that is more than 5 intervals since the time the next tick was due; a
\* check that reads nextCheck while a tick start writes it fails only if
\* that holds for the tick before.
C15_FailsAfterSixIntervals ==
    /\ (C15_Probed /\ ~tmProbe.racing) =>
          (tmProbe.failed <=> C15_Elapsed > 6 * tmInterval)
    /\ (C15_Probed /\ tmProbe.racing) =>
          (tmProbe.failed => C15_Elapsed > 6 * tmInterval)

C15_Witness ==
    /\ C15_Probed
    /\ ~tmProbe.racing
    /\ tmProbe.failed
    /\ C15_Elapsed = 6 * tmInterval + 1

-----------------------------------------------------------------------------
(* Further claims checked under Spec                                        *)

C16_TickInProgress == loop \in {"dispatch", "wait", "report"}

\* The tick branch of the select is taken.
C16_TickStarts == Tick \/ TickCollectFails

\* The loop leaves only from its select, on the cancellation case, and a
\* tick in progress goes on.
C16_NotInterrupted ==
    /\ (loop # "stopped" /\ loop' = "stopped") => (loop = "select" /\ cancelled)
    /\ (cancelled /\ C16_TickInProgress) => loop' # "stopped"

\* C16 as stated: once the cancellation is raised no tick starts, also when
\* the timer is ready together with the cancellation, and a tick in progress
\* is not interrupted.
C16_NoTickOnceCancelled ==
    [][(cancelled => ~C16_TickStarts) /\ C16_NotInterrupted]_vars

\* C16, amended: the select may still take the tick branch (or the event
\* branch) while the cancellation is ready, since it chooses among its ready
\* cases; what holds is that the loop terminates only from its select, when
\* cancelled, with every reconciliation of the last tick returned and the
\* tick reported, that a tick in progress is never interrupted, and that no
\* tick starts once the loop has terminated.
C16_TerminatesBetweenTicks ==
    /\ [](loop = "stopped" => (cancelled /\ worker = EmptyMap /\ containers = EmptyMap))
    /\ [][C16_NotInterrupted]_vars
    /\ [][loop = "stopped" => (loop' = "stopped" /\ ~C16_TickStarts)]_vars

\* The cancellation is raised and a tick is in progress, one of its
\* reconciliations still running.
C16_Witness ==
    /\ cancelled
    /\ loop = "wait"
    /\ \E u \in DOMAIN worker : worker[u] = "reconciling"

\* The goroutines of the tick in which ReconcileStackSet is running.
C19_Reconciling == {u \in DOMAIN worker : worker[u] = "reconciling"}

\* The way of a container through its tick: its goroutine is started, calls
\* ReconcileStackSet, and returns.
C19_Progress == {<<"pending", "started">>, <<"started", "reconciling">>, <<"reconciling", "done">>}

C19_StateOk ==
    /\ Cardinality(C19_Reconciling) <= reconcileWorkers
    /\ Cardinality(Running) <= reconcileWorkers
    /\ loop \in {"dispatch", "wait", "report"} => DOMAIN worker = DOMAIN containers
    /\ loop = "report" => \A u \in DOMAIN containers : worker[u] = "done"

C19_StepOk ==
    /\ \A u \in DOMAIN worker \cap DOMAIN worker' :
         worker'[u] # worker[u] => <<worker[u], worker'[u]>> \in C19_Progress
    /\ (loop = "report" /\ loop' # "report") =>
         \A u \in DOMAIN containers : worker[u] = "done"
    /\ (DOMAIN worker # {} /\ worker' = EmptyMap) => loop = "report"

\* C19: at every instant of a tick at most ReconcileWorkers calls of
\* ReconcileStackSet are running; every container of the tick goes once from
\* pending through the call of ReconcileStackSet to done, none skipping the
\* call and none going back; and the metrics are reported, and the
\* containers dropped, only when every one of them is done.
C19_BoundedPoolReconcilesEachOnce == [](C19_StateOk) /\ [][C19_StepOk]_vars

\* With one worker and two containers, one reconciliation is running and
\* the other container waits for its goroutine to be started.
C19_Witness ==
    /\ reconcileWorkers = 1
    /\ loop = "dispatch"
    /\ \E u, v \in DOMAIN worker :
         /\ worker[u] = "reconciling"
         /\ worker[v] = "pending"


\* C27: after the main loop has handled a delete event for a StackSet, its
\* UID is not a key of c.stacksetStore, whether or not it was one before.
\* Refuted by the model of the code: see C27_DeletedIsAdmitted.
C27_DeletedNeverStored ==
    (lastHandled # None /\ lastHandled.Deleted) =>
        lastHandled.UID \notin DOMAIN stacksetStore

\* What the delete event does: it removes the entry of a stored StackSet;
\* for a StackSet that is not stored it is treated like any other event, and
\* an owned one is admitted.
C27_DeleteRemovesOnlyStored ==
    (lastHandled # None /\ lastHandled.Deleted) =>
        (lastHandled.UID \in DOMAIN stacksetStore <=>
            (~lastHandled.stored /\ hasOwnership([owner |-> lastHandled.owner])))

\* A delete event for an owned StackSet that was not in the store has been
\* handled, and the StackSet marked as deleted is now in the store.
C27_DeletedIsAdmitted ==
    /\ lastHandled # None
    /\ lastHandled.Deleted
    /\ ~lastHandled.stored
    /\ lastHandled.UID \in DOMAIN stacksetStore


\* A tick is in progress: collectResources has read the store and Wait has
\* not yet returned.
C29_InTick == loop \in {"dispatch", "wait"}

C29_StateOk ==
    /\ C29_InTick => lastHandled = None
    /\ ~C29_InTick => Running = {}

C29_StepOk ==
    /\ stacksetStore' # stacksetStore => (~C29_InTick /\ Running = {})
    /\ C29_InTick => (stacksetEvents' = stacksetEvents \/ Len(stacksetEvents') > Len(stacksetEvents))

\* C29: the store is not written while a worker of a tick runs or
\* collectResources reads it: between the start of a tick and the return of
\* Wait no event is received from the channel and no step changes the store.
C29_NoStoreWriteDuringTick == [](C29_StateOk) /\ [][C29_StepOk]_vars

\* A worker is reconciling a StackSet of the store while a delete event for
\* that StackSet waits on the channel.
C29_Witness ==
    /\ loop = "wait"
    /\ stacksetEvents # <<>>
    /\ Head(stacksetEvents).Deleted
    /\ Head(stacksetEvents).StackSet.UID \in DOMAIN stacksetStore
    /\ Head(stacksetEvents).StackSet.UID \in Running
    /\ worker[Head(stacksetEvents).StackSet.UID] = "reconciling"

-----------------------------------------------------------------------------
(* Claims checked under SpecEvents                                          *)

C14_Chained == {"FailedManageStack", reasonFailedManageStackSet}

\* C14: every failure of a reconciliation yields at most one warning event
\* on its way from the failing operation through ReconcileStackResources (or
\* another helper), ReconcileStackSet and the worker of Run: the events
\* recorded never outnumber the failures, no failure (object and cause) has
\* two events, and errorEventf returns an eventedError as it is, with no
\* event.
C14_AtMostOneEventPerFailure ==
    /\ Len(evEvents) <= evFailures
    /\ \A i, j \in 1..Len(evEvents) :
         (evEvents[i][2] = evEvents[j][2] /\ evEvents[i][3] = evEvents[j][3]) => i = j
    /\ \A e \in ErrorValues : \A reason \in C14_Chained :
         e.evented => errorEventf(StackSetObject, reason, e) = [err |-> e, events |-> <<>>]

\* A reconciliation is through in which the call of a kind failed for a
\* Stack and a status update failed: the first error went through two calls
\* of errorEventf, the second through the one of ReconcileStatuses and the
\* one of the worker, and each has its one event.
C14_Witness ==
    /\ evPc = "done"
    /\ evErr # None
    /\ evErr.evented
    /\ evFailures >= 2
    /\ Len(evEvents) = evFailures
    /\ \E i \in 1..Len(evEvents) : evEvents[i][2].kind = "Stack" /\ evEvents[i][3] \in FailureChoices

-----------------------------------------------------------------------------
(* Claims checked under SpecCreate                                          *)

\* The name of a configuration resource does not begin with the Stack's.
C20_NotPrefixed(rsc, stack) ==
    \E i \in 1..Len(stack) : i > Len(rsc) \/ rsc[i] # stack[i]

C20_BadName ==
    /\ ccNewStack # None
    /\ \E i \in 1..Len(ccNewStack.ConfigurationResources) :
         C20_NotPrefixed(ccNewStack.ConfigurationResources[i], ccNewStack.Name)

C20_SupportEnabled == features.ConfigMap \/ features.Secret

C20_Returned == ccPc \in {"returned", "proceeds"}

\* C20: with config-map or secret support enabled, a new Stack with a
\* configuration resource whose name is not prefixed by the Stack's name is
\* not created: CreateCurrentStack returns the naming error with no call of
\* the API made, the store, ObservedStackVersion and the tick's model are
\* as before, and the only event is the warning "FailedCreateStack"; with
\* both supports disabled the names are not looked at and Create is called.
C20_BadNameIsNeverCreated ==
    (C20_Returned /\ C20_BadName) =>
        IF C20_SupportEnabled
        THEN /\ ccErr.kind = "configurationResourceName"
             /\ C20_NotPrefixed(ccErr.rsc, ccNewStack.Name)
             /\ ccCalls = <<>>
             /\ ccApi = [stacks |-> {}, observed |-> ObservedBefore]
             /\ ccContainer = [observed |-> ObservedBefore, stacks |-> {}]
             /\ ccPc = "proceeds" =>
                  ccEvents = << <<"FailedCreateStack", StackSetObject, "create">> >>
        ELSE /\ ccErr.kind # "configurationResourceName"
             /\ ccCalls # <<>>
             /\ ccCalls[1] = "Create"

\* Secret support alone is enabled and the second configuration resource of
\* the new Stack, not the first, has a name without the prefix: the call has
\* returned the naming error and it has been evented.
C20_Witness ==
    /\ ccPc = "proceeds"
    /\ features.Secret
    /\ ~features.ConfigMap
    /\ ccNewStack # None
    /\ Len(ccNewStack.ConfigurationResources) = 2
    /\ ~C20_NotPrefixed(ccNewStack.ConfigurationResources[1], ccNewStack.Name)
    /\ C20_NotPrefixed(ccNewStack.ConfigurationResources[2], ccNewStack.Name)
    /\ ccErr.kind = "configurationResourceName"



\* The Create call for the new Stack was made and failed: the Stack is not
\* in the store.
C26_CreateFailed ==
    /\ ccPc \in {"returned", "proceeds"}
    /\ ccCalls # <<>>
    /\ ccCalls[1] = "Create"
    /\ ccNewStack.Name \notin ccApi.stacks

C26_Reasons == {ccEvents[i][1] : i \in 1..Len(ccEvents)}

C26_StateOk ==
    C26_CreateFailed =>
        /\ ccErr = [kind |-> "Create"]
        /\ ccCalls = <<"Create">>
        /\ ccApi.observed = ObservedBefore
        /\ ccContainer = [observed |-> ObservedBefore, stacks |-> {}]
        /\ "CreatedStack" \notin C26_Reasons
        /\ ccPc = "returned" => ccEvents = <<>>
        /\ ccPc = "proceeds" =>
              ccEvents = << <<"FailedCreateStack", StackSetObject, "create">> >>

C26_StepOk ==
    (C26_CreateFailed /\ ccPc = "returned" /\ ccPc' # ccPc) => ccPc' = "proceeds"

\* C26: when the Create call for the new Stack fails, CreateCurrentStack
\* returns that error with no further call made: ObservedStackVersion is as
\* before in the store and in the tick's model, no StackContainer is added
\* and no "CreatedStack" event is recorded; ReconcileStackSet records one
\* "FailedCreateStack" event and goes on to its next stage.
C26_FailedCreateLeavesNoTrace == [](C26_StateOk) /\ [][C26_StepOk]_vars

\* Create failed for a Stack whose configuration resources pass the naming
\* check, and ReconcileStackSet has evented the failure and gone on.
C26_Witness ==
    /\ C26_CreateFailed
    /\ ccPc = "proceeds"
    /\ features.ConfigMap
    /\ Len(ccNewStack.ConfigurationResources) = 1
    /\ Len(ccEvents) = 1

-----------------------------------------------------------------------------
(* Claims checked under SpecSelect                                         *)

\* The strings of the model that are durations, with their minutes.
C23_Minutes == [str \in {"5m", "-1m", "0"} |->
                   IF str = "5m" THEN 5 ELSE IF str = "-1m" THEN 0 - 1 ELSE 0]

C23_Chosen(annotations) ==
    IF PrescaleStacksAnnotationKey \notin DOMAIN annotations
    THEN "Simple"
    ELSE "Prescaling"

C23_Delay(annotations) ==
    IF /\ ResetHPAMinReplicasDelayAnnotationKey \in DOMAIN annotations
       /\ annotations[ResetHPAMinReplicasDelayAnnotationKey] \in DOMAIN C23_Minutes
    THEN C23_Minutes[annotations[ResetHPAMinReplicasDelayAnnotationKey]]
    ELSE 10

C23_StateOk ==
    selLoop = "tick" =>
       /\ selContainer.StackSet = selStore
       /\ selContainer.TrafficReconciler.kind = C23_Chosen(selStore)
       /\ C23_Chosen(selStore) = "Prescaling" =>
             selContainer.TrafficReconciler.ResetHPAMinReplicasTimeout = C23_Delay(selStore)
       /\ selUsed # <<>> => selUsed = <<selContainer.TrafficReconciler>>

C23_StepOk ==
    (selLoop = "tick" /\ selLoop' = "tick") =>
       /\ selContainer' = selContainer
       /\ selStore' = selStore
       /\ selUsed # <<>> => selUsed' = selUsed

\* C23: in a tick the container of a StackSet has one traffic reconciler,
\* chosen at collection from the stored StackSet: Prescaling exactly when the
\* prescale annotation key is present (with the reset delay of the reset-delay
\* annotation when it parses as a duration, else 10 minutes), Simple
\* otherwise; an update sent during the tick changes neither the store nor
\* the reconciler the tick works with.
C23_ReconcilerChosenAtCollection == [](C23_StateOk) /\ [][C23_StepOk]_vars

\* A tick that has worked with a Prescaling reconciler on the default delay
\* (the reset-delay annotation does not parse) while an update that removes
\* the prescale annotation waits on the channel.
C23_Witness ==
    /\ selLoop = "tick"
    /\ selUsed # <<>>
    /\ selUsed[1].kind = "Prescaling"
    /\ selUsed[1].ResetHPAMinReplicasTimeout = 10
    /\ ResetHPAMinReplicasDelayAnnotationKey \in DOMAIN selStore
    /\ selStore[PrescaleStacksAnnotationKey] = "false"
    /\ selEvent # None
    /\ PrescaleStacksAnnotationKey \notin DOMAIN selEvent


-----------------------------------------------------------------------------
(* Claims checked under SpecChannel                                        *)

\* The notifications sent and not yet applied, oldest first.
C30_InFlight == chChannel \o chHandler

\* The notifications in flight are the ones numbered from chExpected on, in
\* the order of their numbers: the main loop receives them in the order the
\* handlers were called.
C30_InOrder ==
    /\ Len(C30_InFlight) <= 2
    /\ \A i \in 1..Len(C30_InFlight) :
          C30_InFlight[i] = (chExpected + i - 1) % (MaxNotification + 1)
    /\ chNextId = (chExpected + Len(C30_InFlight)) % (MaxNotification + 1)

\* The store is written with the oldest notification in flight, and a
\* handler that waits for the full channel keeps waiting through the tick.
C30_StepOk ==
    /\ chStore' # chStore => (chStore' = <<chExpected>> /\ chLoop = "select")
    /\ (chLoop = "tick" /\ chHandler # <<>> /\ chChannel # <<>>) =>
          (chHandler' = chHandler /\ chChannel' = chChannel)

C30_Delivered ==
    \A id \in NotificationIds :
       (\E i \in 1..Len(C30_InFlight) : C30_InFlight[i] = id)
          ~> (chStore = <<id>> \/ chCancelled)

C30_Unblocked ==
    \A id \in NotificationIds :
       (chLoop = "tick" /\ chChannel # <<>> /\ chHandler = <<id>>)
          ~> (chChannel = <<id>> \/ chCancelled)

C30_TicksKeepRunning == []<>(chLoop = "tick" \/ chCancelled)

\* C30: while the context is not cancelled, every notification a handler
\* sends on the channel is received by the main loop and applied to the
\* store, in the order of sending; a handler that waits for the full channel
\* during a tick gets its notification into the channel after the tick; and
\* ticks keep running whatever the stream of events.
C30_EventsAndTicksProgress ==
    /\ [](C30_InOrder)
    /\ [][C30_StepOk]_vars
    /\ C30_Delivered
    /\ C30_Unblocked
    /\ C30_TicksKeepRunning

\* A tick is running, the channel is full and a handler waits with the next
\* notification; an earlier notification has been applied to the store.
C30_Witness ==
    /\ chLoop = "tick"
    /\ ~chCancelled
    /\ Len(chChannel) = 1
    /\ chHandler # <<>>
    /\ chStore # <<>>
    /\ chChannel[1] = NextId(chStore[1])
    /\ chHandler[1] = NextId(chChannel[1])

-----------------------------------------------------------------------------
(* C31: the conflict ReconcileStackSetDesiredTraffic causes for             *)
(* ReconcileStatuses                                                        *)

\* The tick of the claim: ReconcileStackSetDesiredTraffic has updated the
\* StackSet, the computed StackSet status differs from the stored one, and
\* no other actor has written.
C31_Case ==
    /\ stTrafficUpdated
    /\ stListed[0] # GeneratedStatus(0)
    /\ extWrites = 0

\* The retryUpdate of the StackSet is running or has returned.
C31_AtStackSet == stObj = 0 /\ stPc \in {"compare", "fetch", "done"} /\ StatusStacks \subseteq stDone

\* The calls of the conflict, re-fetch and retry path: UpdateStatus with the
\* resource version of the listed copy, Get, UpdateStatus with the fetched
\* resource version.
C31_Path ==
    <<[call |-> "UpdateStatus", rv |-> 1, status |-> GeneratedStatus(0), answer |-> "conflict"],
      [call |-> "Get", rv |-> 2, status |-> stListed[0], answer |-> "nil"],
      [call |-> "UpdateStatus", rv |-> 2, status |-> GeneratedStatus(0), answer |-> "nil"]>>

\* The calls so far follow the path, up to an answer that is an error.
C31_OnPath ==
    /\ Len(stTrace) <= Len(C31_Path)
    /\ \A i \in 1..Len(stTrace) :
         \/ stTrace[i] = C31_Path[i]
         \/ i = Len(stTrace) /\ stTrace[i].call = C31_Path[i].call /\ stTrace[i].answer = "error"

C31_Persisted ==
    /\ stErr = "nil"
    /\ stTrace = C31_Path
    /\ apiStatus[0] = [rv |-> 3, status |-> GeneratedStatus(0)]

\* ReconcileStatuses returned an error: a Stack's retryUpdate did, or one of
\* the calls of the StackSet's path was answered with an error.
C31_Failed ==
    /\ stErr = "error"
    /\ apiStatus[0] = [rv |-> 2, status |-> stListed[0]]
    /\ \/ ~(StatusStacks \subseteq stDone)
       \/ /\ stObj = 0
          /\ stTrace # <<>>
          /\ stTrace[Len(stTrace)].answer = "error"

C31_StateOk ==
    C31_Case =>
       /\ C31_AtStackSet => C31_OnPath
       /\ stPc = "done" => (C31_Persisted \/ C31_Failed)

=============================================================================
